---- MODULE Spec2Model ----
(***************************************************************************)
(* Model of the backup API's job lifecycle: the backup pipeline            *)
(* (backup_manager.run_backup), the restore triggers and run_restore,      *)
(* job deletion, and the retention engine (scheduler.enforce_retention).   *)
(*                                                                         *)
(* Optional fields (Python None) are sets: {} is None, {v} is the value v. *)
(* Strings that are built by the code (logs, error messages) are sequences *)
(* of tokens, so that a prefix added by the code is visible.               *)
(***************************************************************************)
EXTENDS Integers, Sequences, FiniteSets, TLC

\* ---------------------------------------------------------------- bounds
MaxJobs == 2        \* Job records (Backup or Restore) ever created in one behaviour
MaxTime == 1        \* the clock runs 0..MaxTime
MaxFaults == 1      \* storage.delete calls that fail within one enforce_retention call
MaxDbs == 2         \* rows of table Database at one time, in the configuration specification
MaxDbIds == 3       \* Database ids handed out at one time, rows and timers, in that specification
MaxPkgs == 3        \* rows of table Package at one time
MaxWorkers == 2     \* concurrent callers of StorageProvider.delete
MaxSweepJobs == 3   \* completed jobs of the sweep-only specification
MaxRetJobs == 5     \* completed jobs of the retention-only specification
MaxAge == 10        \* oldest job age (days) of the retention-only specification

DbIds == {1, 2}
BackupIds == 1..MaxJobs
RestoreIds == 1..MaxJobs

Engines == {"postgres", "mongodb", "mysql"}
Compressions == {"none", "gzip"}
ExitCodes == {0, 1}
Stderrs == {<< >>, <<"warning">>}
Contents == {<<"x">>}                  \* bytes the dump writes to the temporary file
DeleteOutcomes == {"ok", "false", "raise"}

None == {}
Some(v) == {v}
Populated(x) == x # {}
The(x) == CHOOSE v \in x : TRUE

VARIABLES
    restore_mode,   \* settings["restore_mode"], cached for the process lifetime
    databases,      \* table Database: id -> row
    backups,        \* table Backup: id -> row (committed state)
    restores,       \* table Restore: id -> row (committed state)
    storage,        \* Storage Provider: path -> content
    tmpfiles,       \* local temporary files: name -> content
    run,            \* per Backup id: the worker running run_backup (position, session objects)
    rtask,          \* per Restore id: the background tasks queued by a restore trigger
    clock,          \* datetime.utcnow()
    response,       \* status code answered by the last request, "" when the last step was none
    backend,        \* the Storage Provider in use: "local" or "s3"
    dcall,          \* per worker: its call of StorageProvider.delete, step by step
    sweep,          \* per worker: its call of enforce_retention, step by step
    pkgconf,        \* settings["package-conf"] and the trigger of the job package_creation_job
    timers,         \* the scheduler's jobs backup_<id>: database id -> crontab
    config,         \* the databases list of config.yaml
    packages,       \* table Package: id -> row
    pkg             \* the worker running create_package (position, local variables)

storevars == <<backend, dcall, sweep>>
cfgvars == <<timers, config>>
pkgvars == <<packages, pkg, pkgconf>>
vars == <<restore_mode, databases, backups, restores, storage, tmpfiles, run, rtask, clock,
          response, backend, dcall, sweep, timers, config, packages, pkg, pkgconf>>

\* ---------------------------------------------------------------- helpers
Put(f, k, v) == [x \in (DOMAIN f) \cup {k} |-> IF x = k THEN v ELSE f[x]]
Drop(f, ks) == [x \in (DOMAIN f) \ ks |-> f[x]]

\* Backup.trigger_mode is read by run_backup but only create_and_run_backup_sync sets it;
\* records created by the API or the scheduler carry the column default.
DefaultTriggerMode == "scheduled"

\* Backup(database_id=..., type=...): models.py defaults (type and started_at are
\* never read by the operations modelled here and are left out of the row)
NewBackup(d) ==
    [database_id |-> d, status |-> "running",
     finished_at |-> None, size_bytes |-> None, storage_path |-> None,
     checksum |-> None, log |-> None, trigger_mode |-> DefaultTriggerMode]

\* Restore(database_id=..., backup_id=...): column defaults
NewRestore(d, b) ==
    [database_id |-> d, backup_id |-> b, status |-> "running",
     finished_at |-> None, log |-> None, error_summary |-> None]

\* hashlib.md5(content).hexdigest()
MD5(content) == <<"md5">> \o content

\* storage_path = backups/<name>/<name>_<timestamp><manual_suffix><ext>
StoragePath(d, ts, trigger_mode) ==
    <<"backups", d, ts, IF trigger_mode = "manual" THEN "_manual" ELSE "">>

TmpBackup(b) == <<"bkp", b>>
TmpRestore(r) == <<"rst", r>>

\* The worker of run_backup for one Backup id: its position and the objects its session holds.
Idle ==
    [pc |-> "idle", db |-> 0, path |-> << >>,
     status |-> "", proc |-> None, log_output |-> << >>, log |-> None,
     size_bytes |-> None, checksum |-> None, storage_path |-> None, handoff |-> "none"]

NoTask == [pc |-> "idle", engine |-> ""]

\* no package-conf schedule, no job package_creation_job
NoPackageConf == [schedule |-> None, timer |-> None]

\* The worker of create_package: its position, the databases it selected, those it still
\* has to gather, the on-the-fly backup it waits for, and how it ended.
NoPackaging ==
    [pc |-> "idle", dbs |-> << >>, todo |-> << >>, waiting |-> 0,
     compression |-> "", trigger_mode |-> "", outcome |-> ""]

\* ---------------------------------------------------------------- initial state
Workers == 1..MaxWorkers
NoCall == [pc |-> "idle", path |-> << >>, result |-> TRUE, fault |-> FALSE]
NoCalls == [w \in Workers |-> NoCall]

\* a worker's call of enforce_retention: the databases still to check, the backups its
\* session selected for deletion and those it has deleted so far (uncommitted), and every
\* backup whose deletion it has issued during the call
NoSweep == [pc |-> "idle", dbs |-> << >>, todo |-> << >>, deleted |-> {}, issued |-> {}]
NoSweeps == [w \in Workers |-> NoSweep]

\* a crontab CronTrigger.from_crontab accepts, and one it rejects
Cron == "0 2 * * *"
BadCron == "daily"
Cron2 == "30 3 * * *"

RetentionPolicies ==
    {[retention_days |-> None, max_backups |-> None],
     [retention_days |-> Some(0), max_backups |-> Some(1)]}

DatabaseRow(engine, compression, policy, config_id) ==
    [engine |-> engine, compression |-> compression,
     retention_days |-> policy.retention_days, max_backups |-> policy.max_backups,
     config_id |-> config_id, is_deleted |-> FALSE, override_static_config |-> FALSE,
     schedule |-> None, package |-> FALSE]

DatabaseRows ==
    {DatabaseRow(e, c, p, cid) :
        e \in Engines, c \in Compressions, p \in RetentionPolicies, cid \in {None, Some("cfg")}}

Init ==
    /\ packages = << >>
    /\ pkg = NoPackaging
    /\ pkgconf = NoPackageConf
    /\ restore_mode \in BOOLEAN
    /\ \E row \in DatabaseRows : databases = (1 :> [row EXCEPT !.schedule = Some(Cron)])
    /\ timers = (1 :> Cron)
    /\ config = << >>
    /\ backend = "local"
    /\ dcall = NoCalls
    /\ sweep = NoSweeps
    /\ backups = << >>
    /\ restores = << >>
    /\ storage = << >>
    /\ tmpfiles = << >>
    /\ run = [b \in BackupIds |-> Idle]
    /\ rtask = [r \in RestoreIds |-> NoTask]
    /\ clock = 0
    /\ response = ""

\* ---------------------------------------------------------------- backup triggers
\* ids are uuids: never reused. At most MaxJobs records are created in one behaviour.
UsedBackupIds == {b \in BackupIds : run[b].pc # "idle"}
FreeBackupIds == BackupIds \ UsedBackupIds
NextBackupId == CHOOSE b \in FreeBackupIds : \A c \in FreeBackupIds : b <= c
MayCreateJob == Cardinality(UsedBackupIds) + Cardinality(DOMAIN restores) < MaxJobs

\* POST /backups
create_backup(d) ==
    /\ MayCreateJob
    /\ IF d \notin DOMAIN databases
       THEN /\ UNCHANGED <<backups, run>>
       ELSE /\ backups' = Put(backups, NextBackupId, NewBackup(d))
            /\ run' = [run EXCEPT ![NextBackupId].pc = "queued"]
    /\ response' = ""
    /\ UNCHANGED <<storevars, pkgvars, cfgvars, restore_mode, databases, restores, storage, tmpfiles, rtask, clock>>

\* the callable of the timer backup_<d>
trigger_scheduled_backup(d) ==
    /\ d \in DOMAIN timers
    /\ MayCreateJob
    /\ IF d \notin DOMAIN databases
       THEN /\ UNCHANGED <<backups, run>>
       ELSE /\ backups' = Put(backups, NextBackupId, NewBackup(d))
            /\ run' = [run EXCEPT ![NextBackupId].pc = "queued"]
    /\ response' = ""
    /\ UNCHANGED <<storevars, pkgvars, cfgvars, restore_mode, databases, restores, storage, tmpfiles, rtask, clock>>

\* ---------------------------------------------------------------- run_backup
\* Outcome of the dump step: either the exception it raises, or the bytes written.
\*   [raised |-> BOOLEAN, error |-> message, proc |-> the dump process's exit, log_output, content]
DumpRaise(error, proc, log_output) ==
    [raised |-> TRUE, error |-> error, proc |-> proc, log_output |-> log_output, content |-> << >>]
DumpOk(proc, log_output, content) ==
    [raised |-> FALSE, error |-> << >>, proc |-> proc, log_output |-> log_output, content |-> content]
Proc(rc, stderr) == Some([rc |-> rc, stderr |-> stderr])

\* pg_dump | gzip  (lines 70-87)
PgDumpGzip(p1_rc, p1_stderr, p2_rc, p2_stderr, content) ==
    LET log_output == p1_stderr \o p2_stderr IN
    IF p1_rc # 0
    THEN DumpRaise(<<"pg_dump failed with exit code", ToString(p1_rc), ":">> \o log_output,
                   Proc(p1_rc, p1_stderr), log_output)
    ELSE IF p2_rc # 0
    THEN DumpRaise(<<"gzip failed with exit code", ToString(p2_rc), ":">> \o log_output,
                   Proc(p1_rc, p1_stderr), log_output)
    ELSE DumpOk(Proc(p1_rc, p1_stderr), log_output, content)

\* pg_dump  (lines 89-97)
PgDump(p_rc, p_stderr, content) ==
    IF p_rc # 0
    THEN DumpRaise(<<"Backup failed with exit code", ToString(p_rc), ":">> \o p_stderr,
                   Proc(p_rc, p_stderr), p_stderr)
    ELSE DumpOk(Proc(p_rc, p_stderr), p_stderr, content)

\* mongodump  (lines 99-112)
MongoDump(rc, stderr, content) ==
    IF rc # 0
    THEN DumpRaise(<<"Backup failed:">> \o stderr, Proc(rc, stderr), stderr)
    ELSE DumpOk(Proc(rc, stderr), stderr, content)

\* every outcome the dump step of one engine/compression can have
DumpOutcomes(engine, compression) ==
    IF engine = "postgres" /\ compression = "gzip"
    THEN {PgDumpGzip(r1, e1, r2, e2, c) :
             r1 \in ExitCodes, e1 \in Stderrs, r2 \in ExitCodes, e2 \in Stderrs, c \in Contents}
         \cup {DumpRaise(<<"OSError">>, None, << >>)}
    ELSE IF engine = "postgres"
    THEN {PgDump(r, e, c) : r \in ExitCodes, e \in Stderrs, c \in Contents}
         \cup {DumpRaise(<<"OSError">>, None, << >>)}
    ELSE IF engine = "mongodb"
    THEN {MongoDump(r, e, c) : r \in ExitCodes, e \in Stderrs, c \in Contents}
         \cup {DumpRaise(<<"OSError">>, None, << >>)}
    ELSE {DumpRaise(<<"Unsupported database engine:", engine>>, None, << >>)}

\* lines 27-36: the fail-fast return
run_backup_missing(b) == b \notin DOMAIN backups \/ backups[b].database_id \notin DOMAIN databases

\* a fail-fast return that leaves a temporary file behind
run_backup_return_late(b) ==
    /\ run' = [run EXCEPT ![b].pc = "done"]
    /\ tmpfiles' = Put(tmpfiles, TmpBackup(b), << >>)

\* lines 30-36: the two early returns, before anything is created
run_backup_return(b) ==
    /\ run' = [run EXCEPT ![b].pc = "done"]
    /\ UNCHANGED tmpfiles

\* lines 52-53: tempfile.NamedTemporaryFile stands before the try statement of line 56,
\* so an OSError of it leaves run_backup with nothing created and nothing committed
run_backup_tmp_raises(b) ==
    /\ run' = [run EXCEPT ![b] = [Idle EXCEPT !.db = backups[b].database_id, !.pc = "raised"]]
    /\ UNCHANGED tmpfiles

\* lines 27-114: load Backup and Database, name the artifact, create the temporary
\* file and run the dump into it; when the dump raises, the except block 131-135
run_backup_dump(b) ==
    /\ run[b].pc = "queued"
    /\ IF run_backup_missing(b)
       THEN run_backup_return(b)
       ELSE LET d == backups[b].database_id
                w == [Idle EXCEPT !.db = d,
                                  !.path = StoragePath(d, clock, backups[b].trigger_mode),
                                  !.status = "failed"]
            IN \/ run_backup_tmp_raises(b)
               \/ \E o \in DumpOutcomes(databases[d].engine, databases[d].compression) :
                    /\ run' = [run EXCEPT ![b] =
                            [w EXCEPT !.pc = IF o.raised THEN "finally" ELSE "save",
                                      !.proc = o.proc, !.log_output = o.log_output,
                                      !.log = IF o.raised THEN Some(o.error) ELSE None]]
                    /\ tmpfiles' = Put(tmpfiles, TmpBackup(b), o.content)
    /\ response' = ""
    /\ UNCHANGED <<storevars, pkgvars, cfgvars, restore_mode, databases, backups, restores, storage, rtask, clock>>

\* a handoff that forgets where the artifact went
MarkCompletedNoPath(w, content) ==
    [w EXCEPT !.pc = "finally", !.handoff = "returned",
              !.size_bytes = Some(Len(content)), !.checksum = Some(MD5(content)),
              !.status = "completed", !.log = Some(w.log_output)]

\* lines 116-129 after a successful handoff: the fields the session's Backup object gets
MarkCompleted(w, content) ==
    [w EXCEPT !.pc = "finally", !.handoff = "returned",
              !.size_bytes = Some(Len(content)), !.checksum = Some(MD5(content)),
              !.storage_path = Some(w.path), !.status = "completed", !.log = Some(w.log_output)]

\* a pipeline that marks the job completed before storage.save has returned
MarkSaveFailedCompleted(w, content) ==
    [w EXCEPT !.pc = "finally", !.handoff = "raised",
              !.size_bytes = Some(Len(content)), !.checksum = Some(MD5(content)),
              !.storage_path = Some(w.path), !.status = "completed",
              !.log = Some(<<"OSError">>)]

\* lines 116-122 and 131-135 when storage.save raises
MarkSaveFailed(w, content) ==
    [w EXCEPT !.pc = "finally", !.handoff = "raised",
              !.size_bytes = Some(Len(content)), !.checksum = Some(MD5(content)),
              !.log = Some(<<"OSError">>)]

\* a save that leaves a truncated artifact under the destination when it fails
StorageSaveTorn(stor, path, content, ok) ==
    IF ok THEN Put(stor, path, content)
    ELSE Put(stor, path, SubSeq(content, 1, Len(content) - 1))

\* StorageProvider.save: os.rename (LocalStorage) or upload_file (S3Storage) puts the
\* whole file under the destination, or raises and puts nothing
StorageSave(stor, path, content, ok) ==
    IF ok THEN Put(stor, path, content) ELSE stor

\* lines 116-129: size and checksum, storage.save, removal of the temporary file
run_backup_save(b) ==
    /\ run[b].pc = "save"
    /\ LET content == tmpfiles[TmpBackup(b)] IN
       \E ok \in BOOLEAN :
          /\ storage' = StorageSave(storage, run[b].path, content, ok)
          /\ IF ok
             THEN /\ tmpfiles' = Drop(tmpfiles, {TmpBackup(b)})
                  /\ run' = [run EXCEPT ![b] = MarkCompleted(run[b], content)]
             ELSE /\ run' = [run EXCEPT ![b] = MarkSaveFailed(run[b], content)]
                  /\ UNCHANGED tmpfiles
    /\ response' = ""
    /\ UNCHANGED <<storevars, pkgvars, cfgvars, restore_mode, databases, backups, restores, rtask, clock>>

\* lines 143-147: the fields written by session.commit()
CommitBackup(row, w) ==
    [row EXCEPT !.finished_at = Some(clock), !.status = w.status,
                !.size_bytes = w.size_bytes, !.checksum = w.checksum,
                !.storage_path = w.storage_path, !.log = w.log]

\* a finally block without the cleanup
RemoveTmpSkipped(files, b) == files

\* lines 137-140: os.remove of the temporary file if it still exists
RemoveTmp(files, b) == Drop(files, {TmpBackup(b)})

\* a run_backup that chains the retention sweep whatever the status
AfterCommitAlways(status) == "retention"

\* lines 155-171, after the commit: enforce_retention(db.id) only if status == "completed"
AfterCommit(status) == IF status = "completed" THEN "retention" ELSE "done"

\* lines 137-147: remove the temporary file, stamp finished_at and status, commit.
\* The UPDATE of a row deleted meanwhile matches nothing: the commit raises out of run_backup.
run_backup_finally(b) ==
    /\ run[b].pc = "finally"
    /\ tmpfiles' = RemoveTmp(tmpfiles, b)
    /\ IF b \in DOMAIN backups
       THEN /\ backups' = [backups EXCEPT ![b] = CommitBackup(backups[b], run[b])]
            /\ run' = [run EXCEPT ![b] =
                          [Idle EXCEPT !.db = run[b].db,
                                       !.pc = AfterCommit(run[b].status)]]
       ELSE /\ run' = [run EXCEPT ![b] = [Idle EXCEPT !.pc = "raised"]]
            /\ UNCHANGED backups
    /\ response' = ""
    /\ UNCHANGED <<storevars, pkgvars, cfgvars, restore_mode, databases, restores, storage, rtask, clock>>

\* ---------------------------------------------------------------- storage
\* StorageProvider.delete under one outcome of the backend call:
\*   "ok"    the object is removed (or was absent): returns True
\*   "false" OSError / ClientError: nothing removed, returns False
\*   "raise" any other error of the backend client propagates
StorageDelete(stor, path, outcome) ==
    IF outcome = "ok" THEN Drop(stor, {path}) ELSE stor

\* ---------------------------------------------------------------- enforce_retention
Completed(bks, d) ==
    {b \in DOMAIN bks : bks[b].database_id = d /\ bks[b].status = "completed"}

Fin(bks, b) == IF Populated(bks[b].finished_at) THEN The(bks[b].finished_at) ELSE -1

\* a time rule that also takes the backups finished exactly at the cutoff
TimeExpiredInclusive(bks, row, d, now) ==
    IF row.retention_days = None THEN {}
    ELSE {b \in Completed(bks, d) :
             /\ Populated(bks[b].finished_at)
             /\ The(bks[b].finished_at) <= now - The(row.retention_days)}

\* lines 84-92: completed backups of d finished before now - retention_days
TimeExpired(bks, row, d, now) ==
    IF row.retention_days = None THEN {}
    ELSE {b \in Completed(bks, d) :
             /\ Populated(bks[b].finished_at)
             /\ The(bks[b].finished_at) < now - The(row.retention_days)}

\* lines 101-110: S is a tail all_backups[max_backups:] of the completed backups that
\* are left, newest first; backups with equal finished_at come in either order
CountSurplus(bks, row, d, left, S) ==
    IF row.max_backups = None \/ Cardinality(left) <= The(row.max_backups)
    THEN S = {}
    ELSE /\ S \subseteq left
         /\ Cardinality(S) = Cardinality(left) - The(row.max_backups)
         /\ \A x \in S, k \in left \ S : Fin(bks, x) <= Fin(bks, k)

RECURSIVE ById(_)
ById(S) ==
    IF S = {} THEN << >>
    ELSE LET m == CHOOSE x \in S : \A y \in S : x <= y IN <<m>> \o ById(S \ {m})

RECURSIVE NewestFirst(_, _)
NewestFirst(bks, S) ==
    IF S = {} THEN << >>
    ELSE LET m == CHOOSE x \in S : \A y \in S :
                     Fin(bks, x) > Fin(bks, y) \/ (Fin(bks, x) = Fin(bks, y) /\ x <= y)
         IN <<m>> \o NewestFirst(bks, S \ {m})

\* lines 93-97 and 111-115: storage.delete of each backup in turn, its result ignored;
\* an error that storage.delete raises ends the loop
RECURSIVE DeleteArtifacts(_, _, _, _)
DeleteArtifacts(seq, bks, stor, outcome) ==
    IF seq = << >> THEN [storage |-> stor, raised |-> FALSE]
    ELSE LET b == Head(seq) IN
         IF ~Populated(bks[b].storage_path)
         THEN DeleteArtifacts(Tail(seq), bks, stor, outcome)
         ELSE IF outcome[b] = "raise"
         THEN [storage |-> stor, raised |-> TRUE]
         ELSE DeleteArtifacts(Tail(seq), bks,
                              StorageDelete(stor, The(bks[b].storage_path), outcome[b]), outcome)

\* lines 80-118 for the databases of dbseq in turn: each database's deletions are
\* committed before the next one; an exception leaves the current one uncommitted
RECURSIVE RetentionSweep(_, _, _, _, _)
RetentionSweep(dbseq, bks, stor, S, outcome) ==
    IF dbseq = << >> THEN [backups |-> bks, storage |-> stor, raised |-> FALSE]
    ELSE LET d == Head(dbseq)
             T == TimeExpired(bks, databases[d], d, clock)
             Sd == S \cap Completed(bks, d)
             r == DeleteArtifacts(ById(T) \o NewestFirst(bks, Sd), bks, stor, outcome)
         IN IF r.raised
            THEN [backups |-> bks, storage |-> r.storage, raised |-> TRUE]
            ELSE RetentionSweep(Tail(dbseq), Drop(bks, T \cup Sd), r.storage, S, outcome)

\* the backups the two rules select for the databases ds, for one choice S of the count rule
RetentionCandidates(ds, S) ==
    S \cup UNION {TimeExpired(backups, databases[d], d, clock) : d \in ds}

SurplusChoice(ds, S) ==
    /\ S \subseteq UNION {Completed(backups, d) : d \in ds}
    /\ \A d \in ds :
          LET T == TimeExpired(backups, databases[d], d, clock) IN
          CountSurplus(backups, databases[d], d, Completed(backups, d) \ T,
                       S \cap Completed(backups, d))

Perms(S) == {f \in [1..Cardinality(S) -> S] : \A i, j \in 1..Cardinality(S) : f[i] = f[j] => i = j}

\* enforce_retention(database_id) / enforce_retention(): lines 67-120;
\* raised: whether an error of storage.delete ends the call
EnforceRetention(dbseq, raised) ==
    LET ds == {dbseq[i] : i \in DOMAIN dbseq} IN
    \E S \in SUBSET (DOMAIN backups) :
      /\ SurplusChoice(ds, S)
      /\ \E outcome \in [RetentionCandidates(ds, S) -> DeleteOutcomes] :
           /\ Cardinality({c \in DOMAIN outcome : outcome[c] # "ok"}) <= MaxFaults
           /\ LET r == RetentionSweep(dbseq, backups, storage, S, outcome) IN
              /\ r.raised = raised
              /\ backups' = r.backups
              /\ storage' = r.storage

\* lines 155-169 of run_backup: the enforcement chained to a completed backup
run_backup_retention(b) ==
    /\ run[b].pc = "retention"
    /\ IF run[b].db \in DOMAIN databases
       THEN \E raised \in BOOLEAN :
              /\ EnforceRetention(<<run[b].db>>, raised)
              /\ run' = [run EXCEPT ![b] =
                            [Idle EXCEPT !.db = run[b].db,
                                         !.pc = IF raised THEN "raised" ELSE "done"]]
       ELSE /\ run' = [run EXCEPT ![b] = [Idle EXCEPT !.db = run[b].db, !.pc = "done"]]
            /\ UNCHANGED <<backups, storage>>
    /\ response' = ""
    /\ UNCHANGED <<storevars, pkgvars, cfgvars, restore_mode, databases, restores, tmpfiles, rtask, clock>>

\* the daily system timer: enforce_retention() over every database, in the order the
\* SELECT returns them; response records an error that ends the job
enforce_retention_job ==
    /\ \E dbseq \in Perms(DOMAIN databases), raised \in BOOLEAN :
          /\ EnforceRetention(dbseq, raised)
          /\ response' = IF raised THEN "job_error" ELSE ""
    /\ UNCHANGED <<storevars, pkgvars, cfgvars, restore_mode, databases, restores, tmpfiles, run, rtask, clock>>

\* ---------------------------------------------------------------- job deletion
\* a deletion that drops the record although storage.delete did not succeed
delete_backup_anyway(b) ==
    /\ IF b \notin DOMAIN backups \/ backups[b].database_id \notin DOMAIN databases
       THEN /\ response' = "502"
            /\ UNCHANGED <<backups, storage>>
       ELSE \E outcome \in DeleteOutcomes :
            /\ storage' = IF Populated(backups[b].storage_path)
                          THEN StorageDelete(storage, The(backups[b].storage_path), outcome)
                          ELSE storage
            /\ backups' = Drop(backups, {b})
            /\ response' = IF outcome = "raise" THEN "raised"
                            ELSE IF outcome = "false" THEN "502" ELSE "204"
    /\ UNCHANGED <<storevars, pkgvars, cfgvars, restore_mode, databases, restores, tmpfiles, run, rtask, clock>>

\* backup_manager.delete_backup and DELETE /backups/{id}: 204 when delete_backup returns
\* True, 502 when it returns False, "raised" when an error of storage.delete propagates
delete_backup(b) ==
    /\ IF b \notin DOMAIN backups \/ backups[b].database_id \notin DOMAIN databases
       THEN /\ response' = "502"
            /\ UNCHANGED <<backups, storage>>
       ELSE \E outcome \in DeleteOutcomes :
            IF Populated(backups[b].storage_path) /\ outcome # "ok"
            THEN /\ response' = IF outcome = "raise" THEN "raised" ELSE "502"
                 /\ UNCHANGED <<backups, storage>>
            ELSE /\ storage' = IF Populated(backups[b].storage_path)
                               THEN StorageDelete(storage, The(backups[b].storage_path), "ok")
                               ELSE storage
                 /\ backups' = Drop(backups, {b})
                 /\ response' = "204"
    /\ UNCHANGED <<storevars, pkgvars, cfgvars, restore_mode, databases, restores, tmpfiles, run, rtask, clock>>

\* DELETE /databases/{id}: soft delete of a config-file database, hard delete otherwise
delete_database(d) ==
    /\ IF d \notin DOMAIN databases \/ databases[d].is_deleted
       THEN UNCHANGED <<databases, timers>>
       ELSE /\ timers' = Drop(timers, {d})
            /\ databases' =
                 IF Populated(databases[d].config_id)
                 THEN [databases EXCEPT ![d].is_deleted = TRUE,
                                        ![d].override_static_config = TRUE]
                 ELSE Drop(databases, {d})
    /\ response' = ""
    /\ UNCHANGED <<storevars, pkgvars, config, restore_mode, backups, restores, storage, tmpfiles, run, rtask, clock>>

\* ---------------------------------------------------------------- restore
\* a gate that lets every request through
check_restore_mode_open == TRUE

\* check_restore_mode, the route dependency of both restore triggers
check_restore_mode == restore_mode

FreeRestoreIds == {r \in RestoreIds : r \notin DOMAIN restores}
NextRestoreId == CHOOSE r \in FreeRestoreIds : \A c \in FreeRestoreIds : r <= c

\* the except block of both triggers: the Restore is failed with an error summary
PrepareFailed(row, msg) ==
    [row EXCEPT !.status = "failed", !.error_summary = Some(msg)]

\* body shared by both triggers once the Restore record is committed: the temporary
\* file, then either the two background tasks or the except block
PrepareRestore(r, row, engine, sources, msg) ==
    \/ \E content \in sources :
          /\ restores' = Put(restores, r, row)
          /\ tmpfiles' = Put(tmpfiles, TmpRestore(r), content)
          /\ rtask' = [rtask EXCEPT ![r] = [pc |-> "queued", engine |-> engine]]
          /\ response' = "202"
    \/ /\ restores' = Put(restores, r, PrepareFailed(row, msg))
       /\ response' = "500"
       /\ UNCHANGED <<tmpfiles, rtask>>

\* POST /backups/{id}/restore
restore_from_backup(b) ==
    /\ MayCreateJob
    /\ IF ~check_restore_mode
       THEN /\ response' = "403"
            /\ UNCHANGED <<restores, tmpfiles, rtask>>
       ELSE IF b \notin DOMAIN backups \/ backups[b].database_id \notin DOMAIN databases
       THEN /\ response' = "404"
            /\ UNCHANGED <<restores, tmpfiles, rtask>>
       ELSE LET d == backups[b].database_id
                p == backups[b].storage_path
            IN PrepareRestore(NextRestoreId,
                              NewRestore(d, Some(b)), databases[d].engine,
                              IF Populated(p) /\ The(p) \in DOMAIN storage
                              THEN {storage[The(p)]} ELSE {},
                              <<"Failed to prepare restore:">>)
    /\ UNCHANGED <<storevars, pkgvars, cfgvars, restore_mode, databases, backups, storage, run, clock>>

\* POST /databases/{id}/restore-from-upload
restore_from_upload(d) ==
    /\ MayCreateJob
    /\ IF ~check_restore_mode
       THEN /\ response' = "403"
            /\ UNCHANGED <<restores, tmpfiles, rtask>>
       ELSE IF d \notin DOMAIN databases \/ databases[d].is_deleted
       THEN /\ response' = "404"
            /\ UNCHANGED <<restores, tmpfiles, rtask>>
       ELSE PrepareRestore(NextRestoreId,
                           NewRestore(d, None), databases[d].engine, Contents,
                           <<"Failed to prepare restore from upload:">>)
    /\ UNCHANGED <<storevars, pkgvars, cfgvars, restore_mode, databases, backups, storage, run, clock>>

\* run_restore lines 25-45 with _run_postgres_restore / _run_mongodb_restore:
\* every row run_restore can commit for one engine
RestoreOutcomes(row, engine) ==
    IF engine \in {"postgres", "mongodb"}
    THEN {[row EXCEPT !.log = Some(stderr), !.finished_at = Some(clock),
                      !.status = IF rc = 0 THEN "completed" ELSE "failed",
                      !.error_summary =
                          IF rc = 0 THEN row.error_summary
                          ELSE Some(<<"restore failed with exit code", ToString(rc), ":">> \o stderr)]
             : rc \in ExitCodes, stderr \in Stderrs}
         \cup {[row EXCEPT !.finished_at = Some(clock), !.status = "failed",
                           !.error_summary = Some(<<"OSError">>)]}
    ELSE {[row EXCEPT !.finished_at = Some(clock), !.status = "failed",
                      !.error_summary = Some(<<"Restore for engine", engine, "is not implemented.">>)]}

\* a restore task that may be executed again after it has finished
run_restore_again(r) ==
    /\ rtask[r].pc \in {"queued", "done"}
    /\ \E row \in RestoreOutcomes(restores[r], rtask[r].engine) :
          /\ restores' = [restores EXCEPT ![r] = row]
          /\ response' = ""
    /\ tmpfiles' = Drop(tmpfiles, {TmpRestore(r)})
    /\ rtask' = [rtask EXCEPT ![r].pc = "done"]
    /\ UNCHANGED <<storevars, pkgvars, cfgvars, restore_mode, databases, backups, storage, run, clock>>

\* the two background tasks of a restore trigger, in order: run_restore, os.unlink
run_restore(r) ==
    /\ rtask[r].pc = "queued"
    /\ \E row \in RestoreOutcomes(restores[r], rtask[r].engine) :
          /\ restores' = [restores EXCEPT ![r] = row]
          /\ response' = ""
    /\ tmpfiles' = Drop(tmpfiles, {TmpRestore(r)})
    /\ rtask' = [rtask EXCEPT ![r].pc = "done"]
    /\ UNCHANGED <<storevars, pkgvars, cfgvars, restore_mode, databases, backups, storage, run, clock>>

Tick ==
    /\ clock < MaxTime
    /\ clock' = clock + 1
    /\ response' = ""
    /\ UNCHANGED <<storevars, pkgvars, cfgvars, restore_mode, databases, backups, restores, storage, tmpfiles, run, rtask>>

\* ---------------------------------------------------------------- specification
Next ==
    \/ \E d \in DbIds : create_backup(d)
    \/ \E d \in DbIds : trigger_scheduled_backup(d)
    \/ \E b \in BackupIds : run_backup_dump(b)
    \/ \E b \in BackupIds : run_backup_save(b)
    \/ \E b \in BackupIds : run_backup_finally(b)
    \/ \E b \in BackupIds : run_backup_retention(b)
    \/ enforce_retention_job
    \/ \E b \in BackupIds : delete_backup(b)
    \/ \E d \in DbIds : delete_database(d)
    \/ \E b \in BackupIds : restore_from_backup(b)
    \/ \E d \in DbIds : restore_from_upload(d)
    \/ \E r \in RestoreIds : run_restore(r)
    \/ Tick

Spec == Init /\ [][Next]_vars

\* ---------------------------------------------------------------- backups under a count rule
\* Backups of one database that keeps its newest backup only (max_backups = 1, no
\* retention_days), triggered by its timer and by POST /backups, possibly overlapping.
InitChain ==
    /\ packages = << >>
    /\ pkg = NoPackaging
    /\ pkgconf = NoPackageConf
    /\ restore_mode = FALSE
    /\ databases = (1 :> [DatabaseRow("postgres", "none",
                                      [retention_days |-> None, max_backups |-> Some(1)], None)
                             EXCEPT !.schedule = Some(Cron)])
    /\ timers = (1 :> Cron)
    /\ config = << >>
    /\ backend = "local"
    /\ dcall = NoCalls
    /\ sweep = NoSweeps
    /\ backups = << >>
    /\ restores = << >>
    /\ storage = << >>
    /\ tmpfiles = << >>
    /\ run = [b \in BackupIds |-> Idle]
    /\ rtask = [r \in RestoreIds |-> NoTask]
    /\ clock = 0
    /\ response = ""

NextChain ==
    \/ \E d \in DbIds : create_backup(d)
    \/ \E d \in DbIds : trigger_scheduled_backup(d)
    \/ \E b \in BackupIds : run_backup_dump(b)
    \/ \E b \in BackupIds : run_backup_save(b)
    \/ \E b \in BackupIds : run_backup_finally(b)
    \/ \E b \in BackupIds : run_backup_retention(b)
    \/ Tick

SpecChain == InitChain /\ [][NextChain]_vars

\* ---------------------------------------------------------------- retention alone
\* The retention engine applied to one database whose completed backups have distinct
\* ages up to MaxAge days, oldest first: the newest one has just been committed by run_backup, whose
\* chained enforce_retention is about to run.
RetentionDaysMenu == {None, Some(7)}
MaxBackupsMenu == {None, Some(1), Some(3)}

RetJobIds == 1..MaxRetJobs

AgeLists ==
    UNION {{age \in [1..n -> 0..MaxAge] : \A i, j \in 1..n : i < j => age[i] > age[j]}
              : n \in 1..MaxRetJobs}

CompletedRow(d, finished) ==
    [NewBackup(d) EXCEPT !.status = "completed", !.finished_at = Some(finished),
                         !.size_bytes = Some(1), !.checksum = Some(MD5(<<"x">>)),
                         !.storage_path = Some(StoragePath(d, finished, DefaultTriggerMode)),
                         !.log = Some(<< >>)]

InitRet ==
    /\ packages = << >>
    /\ pkg = NoPackaging
    /\ pkgconf = NoPackageConf
    /\ restore_mode = FALSE
    /\ timers = << >>
    /\ config = << >>
    /\ backend = "local"
    /\ dcall = NoCalls
    /\ sweep = NoSweeps
    /\ \E days \in RetentionDaysMenu, max \in MaxBackupsMenu :
          databases = (1 :> DatabaseRow("postgres", "none",
                                        [retention_days |-> days, max_backups |-> max], None))
    /\ clock = MaxAge
    /\ \E age \in AgeLists :
          LET n == Len(age) IN
          /\ backups = [i \in 1..n |-> CompletedRow(1, MaxAge - age[i])]
          /\ storage = [p \in {StoragePath(1, MaxAge - age[i], DefaultTriggerMode) : i \in 1..n}
                           |-> <<"x">>]
          /\ run = [i \in RetJobIds |->
                       IF i > n THEN Idle
                       ELSE [Idle EXCEPT !.db = 1, !.pc = IF i = n THEN "retention" ELSE "done"]]
    /\ restores = << >>
    /\ tmpfiles = << >>
    /\ rtask = [r \in RestoreIds |-> NoTask]
    /\ response = ""

NextRet ==
    \/ \E b \in RetJobIds : run_backup_retention(b)
    \/ enforce_retention_job

SpecRet == InitRet /\ [][NextRet]_vars

\* ---------------------------------------------------------------- the retention sweep
\* The daily sweep over two databases that own MaxSweepJobs completed backups between
\* them, finished on successive days.
SweepJobIds == 1..MaxSweepJobs
SweepPolicies ==
    {[retention_days |-> None, max_backups |-> None],
     [retention_days |-> None, max_backups |-> Some(1)],
     [retention_days |-> Some(1), max_backups |-> None]}

InitSweep ==
    /\ packages = << >>
    /\ pkg = NoPackaging
    /\ pkgconf = NoPackageConf
    /\ restore_mode = FALSE
    /\ timers = << >>
    /\ config = << >>
    /\ backend = "local"
    /\ dcall = NoCalls
    /\ sweep = NoSweeps
    /\ \E p1 \in SweepPolicies, p2 \in SweepPolicies :
          databases = (1 :> DatabaseRow("postgres", "none", p1, None))
                      @@ (2 :> DatabaseRow("postgres", "none", p2, None))
    /\ clock = MaxSweepJobs + 1
    /\ \E owner \in [SweepJobIds -> {1, 2}] :
          /\ backups = [i \in SweepJobIds |-> CompletedRow(owner[i], i)]
          /\ storage = [q \in {StoragePath(owner[i], i, DefaultTriggerMode) : i \in SweepJobIds}
                           |-> <<"x">>]
    /\ run = [i \in SweepJobIds |-> [Idle EXCEPT !.db = backups[i].database_id, !.pc = "done"]]
    /\ restores = << >>
    /\ tmpfiles = << >>
    /\ rtask = [r \in RestoreIds |-> NoTask]
    /\ response = ""

NextSweep ==
    \/ enforce_retention_job
    \/ \E b \in SweepJobIds : delete_backup(b)

SpecSweep == InitSweep /\ [][NextSweep]_vars

\* ---------------------------------------------------------------- concurrent sweeps
\* enforce_retention at the grain of its session: the daily job (all databases) and the
\* enforcement chained to a backup (one database) run on different workers of the pool.
\* lines 71-79: the databases to check
enforce_retention_begin(w, dbseq) ==
    /\ sweep[w].pc = "idle"
    /\ sweep' = [sweep EXCEPT ![w] = [NoSweep EXCEPT !.pc = "select", !.dbs = dbseq]]
    /\ UNCHANGED <<backend, dcall, pkgvars, cfgvars, restore_mode, databases, backups, restores,
                   storage, tmpfiles, run, rtask, clock, response>>

\* lines 84-92 and 101-110 for the next database: the two selects of the session
enforce_retention_select(w) ==
    /\ sweep[w].pc = "select"
    /\ IF sweep[w].dbs = << >>
       THEN sweep' = [sweep EXCEPT ![w].pc = "done"]
       ELSE LET d == Head(sweep[w].dbs)
                T == TimeExpired(backups, databases[d], d, clock)
            IN \E S \in SUBSET (Completed(backups, d) \ T) :
                  /\ CountSurplus(backups, databases[d], d, Completed(backups, d) \ T, S)
                  /\ sweep' = [sweep EXCEPT ![w].pc = "delete",
                                            ![w].todo = ById(T) \o NewestFirst(backups, S)]
    /\ UNCHANGED <<backend, dcall, pkgvars, cfgvars, restore_mode, databases, backups, restores,
                   storage, tmpfiles, run, rtask, clock, response>>

\* lines 93-97 and 111-115 for one selected backup: storage.delete, its result ignored,
\* then session.delete
enforce_retention_delete(w) ==
    /\ sweep[w].pc = "delete"
    /\ sweep[w].todo # << >>
    /\ LET b == Head(sweep[w].todo) IN
       /\ \E outcome \in {"ok", "false"} :
             storage' = IF b \in DOMAIN backups /\ Populated(backups[b].storage_path)
                        THEN StorageDelete(storage, The(backups[b].storage_path), outcome)
                        ELSE storage
       /\ sweep' = [sweep EXCEPT ![w].todo = Tail(sweep[w].todo),
                                 ![w].deleted = sweep[w].deleted \cup {b},
                                 ![w].issued = sweep[w].issued \cup {b}]
    /\ UNCHANGED <<backend, dcall, pkgvars, cfgvars, restore_mode, databases, backups, restores,
                   tmpfiles, run, rtask, clock, response>>

\* line 118: session.commit() of the deletions of one database; the DELETE of a row that
\* another session has deleted meanwhile matches nothing
enforce_retention_commit(w) ==
    /\ sweep[w].pc = "delete"
    /\ sweep[w].todo = << >>
    /\ backups' = Drop(backups, sweep[w].deleted)
    /\ sweep' = [sweep EXCEPT ![w].pc = "select", ![w].dbs = Tail(sweep[w].dbs),
                              ![w].deleted = {}]
    /\ UNCHANGED <<backend, dcall, pkgvars, cfgvars, restore_mode, databases, restores,
                   storage, tmpfiles, run, rtask, clock, response>>

NextRace ==
    \/ \E w \in Workers, dbseq \in {<<1>>, <<2>>, <<1, 2>>, <<2, 1>>} : enforce_retention_begin(w, dbseq)
    \/ \E w \in Workers : enforce_retention_select(w)
    \/ \E w \in Workers : enforce_retention_delete(w)
    \/ \E w \in Workers : enforce_retention_commit(w)

SpecRace == InitSweep /\ [][NextRace]_vars

\* ---------------------------------------------------------------- StorageProvider.delete
\* The provider's delete at the grain of its file-system / API calls, called by several
\* workers at once (the DELETE route and the retention job run in different threads).
StorePaths == {StoragePath(1, t, DefaultTriggerMode) : t \in 0..1}

Returned(path, result, fault) ==
    [pc |-> "returned", path |-> path, result |-> result, fault |-> fault]

\* LocalStorage.delete lines 40-41 and 47: os.path.exists; an absent path returns True
local_delete_exists(w, path) ==
    /\ backend = "local"
    /\ dcall[w].pc # "remove"
    /\ dcall' = [dcall EXCEPT ![w] =
                    IF path \in DOMAIN storage
                    THEN [NoCall EXCEPT !.pc = "remove", !.path = path]
                    ELSE Returned(path, TRUE, FALSE)]
    /\ UNCHANGED storage
    /\ UNCHANGED <<backend, sweep, pkgvars, cfgvars, restore_mode, databases, backups, restores, tmpfiles,
                   run, rtask, clock, response>>

\* LocalStorage.delete lines 42-46: os.remove; every OSError returns False, be it an
\* I/O fault or the FileNotFoundError of a file removed since the exists check
local_delete_remove(w) ==
    /\ backend = "local"
    /\ dcall[w].pc = "remove"
    /\ LET path == dcall[w].path IN
       \E fault \in BOOLEAN :
          IF fault
          THEN /\ dcall' = [dcall EXCEPT ![w] = Returned(path, FALSE, TRUE)]
               /\ UNCHANGED storage
          ELSE IF path \in DOMAIN storage
          THEN /\ dcall' = [dcall EXCEPT ![w] = Returned(path, TRUE, FALSE)]
               /\ storage' = Drop(storage, {path})
          ELSE /\ dcall' = [dcall EXCEPT ![w] = Returned(path, FALSE, FALSE)]
               /\ UNCHANGED storage
    /\ UNCHANGED <<backend, sweep, pkgvars, cfgvars, restore_mode, databases, backups, restores, tmpfiles,
                   run, rtask, clock, response>>

\* S3Storage.delete lines 83-89: delete_object succeeds on an absent key; a ClientError
\* returns False, any other error of the client propagates
s3_delete(w, path) ==
    /\ backend = "s3"
    /\ \E outcome \in DeleteOutcomes :
          /\ dcall' = [dcall EXCEPT ![w] =
                          IF outcome = "ok" THEN Returned(path, TRUE, FALSE)
                          ELSE IF outcome = "false" THEN Returned(path, FALSE, TRUE)
                          ELSE [NoCall EXCEPT !.pc = "raised", !.path = path, !.fault = TRUE]]
          /\ storage' = StorageDelete(storage, path, outcome)
    /\ UNCHANGED <<backend, sweep, pkgvars, cfgvars, restore_mode, databases, backups, restores, tmpfiles,
                   run, rtask, clock, response>>

InitStore ==
    /\ packages = << >>
    /\ pkg = NoPackaging
    /\ pkgconf = NoPackageConf
    /\ backend \in {"local", "s3"}
    /\ dcall = NoCalls
    /\ sweep = NoSweeps
    /\ \E present \in SUBSET StorePaths : storage = [q \in present |-> <<"x">>]
    /\ restore_mode = FALSE
    /\ databases = << >>
    /\ backups = << >>
    /\ restores = << >>
    /\ tmpfiles = << >>
    /\ run = [b \in BackupIds |-> Idle]
    /\ rtask = [r \in RestoreIds |-> NoTask]
    /\ clock = 0
    /\ response = ""
    /\ timers = << >>
    /\ config = << >>

NextStore ==
    \/ \E w \in Workers, path \in StorePaths : local_delete_exists(w, path)
    \/ \E w \in Workers : local_delete_remove(w)
    \/ \E w \in Workers, path \in StorePaths : s3_delete(w, path)

SpecStore == InitStore /\ [][NextStore]_vars

\* ---------------------------------------------------------------- scheduler timers
\* CronTrigger.from_crontab raises ValueError for a string that is no crontab
ValidCron(schedule) == schedule # BadCron

\* a reconcile that drops the timer of a scheduled database when it finds one
ReconcileOneToggle(tms, d, row) ==
    IF Populated(row.schedule)
    THEN IF d \in DOMAIN tms THEN Drop(tms, {d}) ELSE Put(tms, d, The(row.schedule))
    ELSE Drop(tms, {d})

\* scheduler.py lines 52-65 for one database: add_job(replace_existing=True) when it has
\* a schedule, remove_job when it has none and the job exists
ReconcileOne(tms, d, row) ==
    IF Populated(row.schedule) THEN Put(tms, d, The(row.schedule)) ELSE Drop(tms, {d})

\* the loop of lines 51-65 over the rows of seq; the ValueError of a bad crontab ends it
RECURSIVE Reconcile(_, _, _)
Reconcile(seq, dbs, tms) ==
    IF seq = << >> THEN [timers |-> tms, raised |-> FALSE]
    ELSE LET d == Head(seq) IN
         IF Populated(dbs[d].schedule) /\ ~ValidCron(The(dbs[d].schedule))
         THEN [timers |-> tms, raised |-> TRUE]
         ELSE Reconcile(Tail(seq), dbs, ReconcileOne(tms, d, dbs[d]))

\* schedule_database_backups over every row of table Database, deleted ones included
ScheduleDatabaseBackups(dbs, tms) == Reconcile(ById(DOMAIN dbs), dbs, tms)

\* schedule_database_backups() on its own, as at startup
schedule_database_backups ==
    /\ LET r == ScheduleDatabaseBackups(databases, timers) IN
       /\ timers' = r.timers
       /\ response' = IF r.raised THEN "job_error" ELSE ""
    /\ UNCHANGED <<storevars, pkgvars, config, restore_mode, databases, backups, restores, storage,
                   tmpfiles, run, rtask, clock>>

\* ---------------------------------------------------------------- databases API
CfgDbIds == 1..MaxDbIds
Schedules == {None, Some(Cron), Some(BadCron)}
NoPolicy == [retention_days |-> None, max_backups |-> None]

\* ids are random: a new row never gets the id of a row or of a timer that exists
FreeDbIds(dbs) == CfgDbIds \ (DOMAIN dbs \cup DOMAIN timers)
NextDbId(dbs) == CHOOSE d \in FreeDbIds(dbs) : \A e \in FreeDbIds(dbs) : d <= e

\* POST /databases
register_database(schedule) ==
    /\ FreeDbIds(databases) # {}
    /\ Cardinality(DOMAIN databases) < MaxDbs
    /\ LET row == [DatabaseRow("postgres", "none", NoPolicy, None) EXCEPT !.schedule = schedule]
           dbs == Put(databases, NextDbId(databases), row)
           r == ScheduleDatabaseBackups(dbs, timers)
       IN /\ databases' = dbs
          /\ timers' = r.timers
          /\ response' = IF r.raised THEN "register 500" ELSE "register 200"
    /\ UNCHANGED <<storevars, pkgvars, config, restore_mode, backups, restores, storage,
                   tmpfiles, run, rtask, clock>>

\* the bodies of PATCH /databases/{id} that are sent: a schedule, or config_id: null
Updates ==
    {[field |-> "schedule", value |-> v] : v \in Schedules}
    \cup {[field |-> "config_id", value |-> None]}

\* lines 44-49: the fields that were sent, then the override flag of a declared row
Updated(row, upd) ==
    LET new == IF upd.field = "schedule" THEN [row EXCEPT !.schedule = upd.value]
               ELSE [row EXCEPT !.config_id = upd.value]
    IN IF Populated(new.config_id) THEN [new EXCEPT !.override_static_config = TRUE] ELSE new

\* PATCH /databases/{id}
update_database(d, upd) ==
    /\ IF d \notin DOMAIN databases \/ databases[d].is_deleted
       THEN /\ response' = "update 404"
            /\ UNCHANGED <<databases, timers>>
       ELSE LET dbs == [databases EXCEPT ![d] = Updated(databases[d], upd)]
                r == ScheduleDatabaseBackups(dbs, timers)
            IN /\ databases' = dbs
               /\ timers' = r.timers
               /\ response' = IF r.raised THEN "update 500" ELSE "update 200"
    /\ UNCHANGED <<storevars, pkgvars, config, restore_mode, backups, restores, storage,
                   tmpfiles, run, rtask, clock>>

\* GET /databases: the rows that are not marked deleted
ListDatabases(dbs) == {d \in DOMAIN dbs : ~dbs[d].is_deleted}

\* ---------------------------------------------------------------- config.yaml
ConfigIds == {"a", "b"}
Entry(id, schedule) ==
    [id |-> id, schedule |-> schedule, credentials |-> TRUE, inherits |-> FALSE]

\* an entry with no "schedule" key: it takes the schedule of the "global" block
Inheriting(entry) == [entry EXCEPT !.inherits = TRUE]

\* the "global" block of the documents: schedule
GlobalSchedule == Some(Cron)

\* config.py lines 95-98 and 207-209: a default of the global block is copied into an
\* entry that has no key of that name
WithDefaults(entry) ==
    IF entry.inherits THEN [entry EXCEPT !.schedule = GlobalSchedule] ELSE entry

\* an entry with no username or password, in the file or in the environment
NoCredentials(entry) == [entry EXCEPT !.credentials = FALSE]

\* the "databases" lists of config.yaml that are loaded: none, one or two entries, two of
\* them with the same id twice, one whose entry leaves its schedule to the global block
ConfigDocs ==
    {<< >>,
     <<Entry("a", Some(Cron))>>,
     <<Entry("a", None)>>,
     <<Entry("a", Some(Cron)), Entry("b", None)>>,
     <<Entry("b", Some(Cron)), Entry("a", None)>>,
     <<Entry("a", Some(Cron)), Entry("a", None)>>,
     <<Entry("b", None), Entry("b", Some(Cron))>>,
     <<NoCredentials(Entry("a", Some(Cron))), Entry("b", Some(Cron))>>,
     <<Entry("a", None), NoCredentials(Entry("b", None))>>,
     <<Inheriting(Entry("a", None))>>}

\* config.py lines 80-87: the same id in two entries
HasDuplicateIds(doc) == \E i, j \in DOMAIN doc : i < j /\ doc[i].id = doc[j].id

\* select(Database).where(Database.config_id == id).first()
RowsOf(dbs, id) == {d \in DOMAIN dbs : dbs[d].config_id = Some(id)}
FirstRowOf(dbs, id) == CHOOSE d \in RowsOf(dbs, id) : \A e \in RowsOf(dbs, id) : d <= e

\* a sync that overwrites a row whatever its override flag says
SyncEntryOverriding(dbs, entry) ==
    IF ~entry.credentials THEN dbs
    ELSE IF RowsOf(dbs, entry.id) # {}
    THEN LET d == FirstRowOf(dbs, entry.id) IN
         IF dbs[d].is_deleted THEN dbs
         ELSE [dbs EXCEPT ![d].schedule = WithDefaults(entry).schedule]
    ELSE Put(dbs, NextDbId(dbs),
             [DatabaseRow("postgres", "none", NoPolicy, Some(entry.id))
                 EXCEPT !.schedule = WithDefaults(entry).schedule])

\* config.py lines 109-148 for one entry: an entry without credentials is skipped, so is
\* the entry of an overridden or deleted row; another row takes the fields of the entry,
\* an unknown id gets a new row
SyncEntry(dbs, entry) ==
    IF ~entry.credentials THEN dbs
    ELSE IF RowsOf(dbs, entry.id) # {}
    THEN LET d == FirstRowOf(dbs, entry.id) IN
         IF dbs[d].override_static_config \/ dbs[d].is_deleted THEN dbs
         ELSE [dbs EXCEPT ![d].schedule = WithDefaults(entry).schedule]
    ELSE Put(dbs, NextDbId(dbs),
             [DatabaseRow("postgres", "none", NoPolicy, Some(entry.id))
                 EXCEPT !.schedule = WithDefaults(entry).schedule])

\* a loop that ends at the first entry without credentials
RECURSIVE SyncEntriesAborting(_, _)
SyncEntriesAborting(doc, dbs) ==
    IF doc = << >> \/ ~Head(doc).credentials THEN dbs
    ELSE SyncEntriesAborting(Tail(doc), SyncEntry(dbs, Head(doc)))

\* the loop of lines 93-148
RECURSIVE SyncEntries(_, _)
SyncEntries(doc, dbs) ==
    IF doc = << >> THEN dbs ELSE SyncEntries(Tail(doc), SyncEntry(dbs, Head(doc)))

\* the rows a sync of doc has to create
NewIds(doc, dbs) == {doc[i].id : i \in {j \in DOMAIN doc : doc[j].credentials}} \ {The(dbs[d].config_id) : d \in {e \in DOMAIN dbs : Populated(dbs[e].config_id)}}

\* a sync that goes on after it found the same id twice
LoadAndSyncUnvalidated(doc, dbs) ==
    [dbs |-> SyncEntries(doc, dbs), raised |-> FALSE]

\* load_and_sync_databases: the duplicate check raises before any row is touched
LoadAndSyncDatabases(doc, dbs) ==
    IF HasDuplicateIds(doc) THEN [dbs |-> dbs, raised |-> TRUE]
    ELSE [dbs |-> SyncEntries(doc, dbs), raised |-> FALSE]

\* POST /reload-databases, with config.yaml holding doc: the sync, then the reconcile
reload_databases_config(doc) ==
    /\ Cardinality(NewIds(doc, databases)) <= Cardinality(FreeDbIds(databases))
    /\ Cardinality(DOMAIN databases) + Cardinality(NewIds(doc, databases)) <= MaxDbs
    /\ config' = doc
    /\ LET s == LoadAndSyncDatabases(doc, databases)
           r == ScheduleDatabaseBackups(s.dbs, timers)
       IN IF s.raised
          THEN /\ response' = "reload 500"
               /\ UNCHANGED <<databases, timers>>
          ELSE /\ databases' = s.dbs
               /\ timers' = r.timers
               /\ response' = IF r.raised THEN "reload 500" ELSE "reload 204"
    /\ UNCHANGED <<storevars, pkgvars, restore_mode, backups, restores, storage,
                   tmpfiles, run, rtask, clock>>

\* config.py lines 206-235 for one entry: a new row unless the credentials are missing
CreateEntry(dbs, entry) ==
    IF ~entry.credentials THEN dbs
    ELSE Put(dbs, NextDbId(dbs),
             [DatabaseRow("postgres", "none", NoPolicy, Some(entry.id))
                 EXCEPT !.schedule = WithDefaults(entry).schedule])

RECURSIVE CreateEntries(_, _)
CreateEntries(doc, dbs) ==
    IF doc = << >> THEN dbs ELSE CreateEntries(Tail(doc), CreateEntry(dbs, Head(doc)))

\* a bulk replace that spares the rows the API has overridden
StaticDbsNotOverridden(dbs) ==
    {d \in DOMAIN dbs : Populated(dbs[d].config_id) /\ ~dbs[d].override_static_config}

\* line 178: select(Database).where(Database.config_id != None)
StaticDbs(dbs) == {d \in DOMAIN dbs : Populated(dbs[d].config_id)}

\* a bulk replace whose deletions of lines 178-182 are not undone by the rollback
OverwriteStaticConfigNoRollback(doc, dbs) ==
    IF HasDuplicateIds(doc) THEN [dbs |-> Drop(dbs, StaticDbs(dbs)), raised |-> TRUE]
    ELSE [dbs |-> Drop(CreateEntries(doc, dbs), StaticDbs(dbs)), raised |-> FALSE]

\* overwrite_static_config: the rows of the config file are deleted and the rows of the
\* uploaded document are created under new ids; a doubled id rolls everything back
OverwriteStaticConfig(doc, dbs) ==
    IF HasDuplicateIds(doc) THEN [dbs |-> dbs, raised |-> TRUE]
    ELSE [dbs |-> Drop(CreateEntries(doc, dbs), StaticDbs(dbs)), raised |-> FALSE]

\* PUT /config with a .yaml file holding doc: the bulk replace, then the reconcile; a
\* ValueError of either is answered with 400
upload_config(doc) ==
    /\ Cardinality({i \in DOMAIN doc : doc[i].credentials}) <= Cardinality(FreeDbIds(databases))
    /\ Cardinality(DOMAIN databases \ StaticDbs(databases))
          + Cardinality({i \in DOMAIN doc : doc[i].credentials}) <= MaxDbs
    /\ LET o == OverwriteStaticConfig(doc, databases)
           r == ScheduleDatabaseBackups(o.dbs, timers)
       IN IF o.raised
          THEN /\ response' = "upload 400"
               /\ databases' = o.dbs
               /\ UNCHANGED timers
          ELSE /\ databases' = o.dbs
               /\ timers' = r.timers
               /\ response' = IF r.raised THEN "upload 400" ELSE "upload 204"
    /\ UNCHANGED <<storevars, pkgvars, config, restore_mode, backups, restores, storage,
                   tmpfiles, run, rtask, clock>>

\* next(c for c in db_configs if c.get('id') == db.config_id)
EntriesOf(doc, id) == {i \in DOMAIN doc : doc[i].id = id}
FirstEntryOf(doc, id) == doc[CHOOSE i \in EntriesOf(doc, id) : \A j \in EntriesOf(doc, id) : i <= j]

\* POST /databases/{id}/reset
reset_database_to_static(d) ==
    /\ IF d \notin DOMAIN databases
       THEN /\ response' = "reset 404"
            /\ UNCHANGED <<databases, timers>>
       ELSE IF ~Populated(databases[d].config_id)
       THEN /\ response' = "reset 400"
            /\ UNCHANGED <<databases, timers>>
       ELSE IF EntriesOf(config, The(databases[d].config_id)) # {}
       THEN LET entry == FirstEntryOf(config, The(databases[d].config_id))
                dbs == [databases EXCEPT ![d].schedule = IF entry.inherits
                                                         THEN databases[d].schedule
                                                         ELSE entry.schedule,
                                         ![d].override_static_config = FALSE,
                                         ![d].is_deleted = FALSE]
                r == ScheduleDatabaseBackups(dbs, timers)
            IN /\ databases' = dbs
               /\ timers' = r.timers
               /\ response' = IF r.raised THEN "reset 500" ELSE "reset 200"
       ELSE /\ timers' = Drop(timers, {d})
            /\ databases' = Drop(databases, {d})
            /\ response' = "reset 404"
    /\ UNCHANGED <<storevars, pkgvars, config, restore_mode, backups, restores, storage,
                   tmpfiles, run, rtask, clock>>

\* ---------------------------------------------------------------- configuration specification
InitCfg ==
    /\ packages = << >>
    /\ pkg = NoPackaging
    /\ pkgconf = NoPackageConf
    /\ restore_mode = FALSE
    /\ databases = << >>
    /\ timers = << >>
    /\ config = << >>
    /\ backend = "local"
    /\ dcall = NoCalls
    /\ sweep = NoSweeps
    /\ backups = << >>
    /\ restores = << >>
    /\ storage = << >>
    /\ tmpfiles = << >>
    /\ run = [b \in BackupIds |-> Idle]
    /\ rtask = [r \in RestoreIds |-> NoTask]
    /\ clock = 0
    /\ response = ""

NextCfg ==
    \/ \E schedule \in Schedules : register_database(schedule)
    \/ \E d \in CfgDbIds, upd \in Updates : update_database(d, upd)
    \/ \E d \in CfgDbIds : delete_database(d)
    \/ \E d \in CfgDbIds : reset_database_to_static(d)
    \/ \E doc \in ConfigDocs : reload_databases_config(doc)
    \/ \E doc \in ConfigDocs : upload_config(doc)
    \/ schedule_database_backups

SpecCfg == InitCfg /\ [][NextCfg]_vars

\* ---------------------------------------------------------------- create_package
PackageIds == 1..MaxPkgs
NextPackageId ==
    CHOOSE p \in PackageIds \ DOMAIN packages : \A q \in PackageIds \ DOMAIN packages : p <= q

\* the compression a package is asked with: two the packager knows and one it does not
PackageCompressions == {"zip", "rar"}

TmpPkgDir == <<"pkgdir">>      \* tempfile.mkdtemp()
TmpPkgFile == <<"pkgtmp">>     \* tempfile.NamedTemporaryFile(delete=False)

\* packages/paquete-backups_<timestamp><manual_suffix><ext>
\* a package that records the storage path of the Backup it was built from
PackagePathByReference(ts, trigger_mode, compression) ==
    StoragePath(1, 0, DefaultTriggerMode)

PackagePath(ts, trigger_mode, compression) ==
    <<"packages", ts, IF trigger_mode = "manual" THEN "_manual" ELSE "", compression>>

\* the archive of lines 67-76: the files of the working directory, in order
RECURSIVE Bundle(_, _)
Bundle(compression, files) ==
    IF files = << >> THEN <<compression>>
    ELSE Bundle(compression, SubSeq(files, 1, Len(files) - 1)) \o files[Len(files)].content

\* Package(storage_path=..., size_bytes=..., checksum=..., trigger_mode=...)
NewPackage(path, bundle, trigger_mode) ==
    [storage_path |-> path, size_bytes |-> Len(bundle), checksum |-> MD5(bundle),
     trigger_mode |-> trigger_mode, created_at |-> clock]

\* a packager that never takes the early return
NothingToPackageNever(dbs_to_package) == FALSE

\* lines 31-34: no database is marked for packaging
NothingToPackage(dbs_to_package) == dbs_to_package = << >>

\* lines 20-34: the working directory, the databases marked for packaging
create_package_start(compression) ==
    /\ pkg.pc = "idle"
    /\ Cardinality(DOMAIN packages) < MaxPkgs
    /\ tmpfiles' = Put(tmpfiles, TmpPkgDir, << >>)
    /\ LET dbs_to_package == ById({d \in DOMAIN databases : databases[d].package})
           p == [NoPackaging EXCEPT !.compression = compression, !.trigger_mode = "manual",
                                    !.dbs = dbs_to_package, !.todo = dbs_to_package]
       IN pkg' = IF NothingToPackage(dbs_to_package)
                 THEN [p EXCEPT !.pc = "finally", !.outcome = "noop"]
                 ELSE [p EXCEPT !.pc = IF dbs_to_package = << >> THEN "bundle" ELSE "gather"]
    /\ response' = ""
    /\ UNCHANGED <<storevars, cfgvars, pkgconf, packages, restore_mode, databases, backups, restores,
                   storage, run, rtask, clock>>

\* a packager that goes on to the next database when the backup it drove has failed
AfterFailedBackupSkip(p) ==
    [p EXCEPT !.todo = Tail(p.todo), !.waiting = 0,
              !.pc = IF Tail(p.todo) = << >> THEN "bundle" ELSE "gather"]

\* lines 50-54: the exception that halts the package creation
AfterFailedBackup(p) == [p EXCEPT !.pc = "finally", !.outcome = "failed", !.waiting = 0]

\* lines 56-58: storage.download_file of the artifact of backup b into the working
\* directory; a missing path, a missing object or a fault of the backend raises
Fetch(d, b, fault) ==
    IF /\ ~fault
       /\ Populated(backups[b].storage_path)
       /\ The(backups[b].storage_path) \in DOMAIN storage
    THEN /\ tmpfiles' = [tmpfiles EXCEPT ![TmpPkgDir] =
                            Append(@, [db |-> d, backup |-> b,
                                       content |-> storage[The(backups[b].storage_path)]])]
         /\ pkg' = [pkg EXCEPT !.todo = Tail(pkg.todo), !.waiting = 0,
                               !.pc = IF Tail(pkg.todo) = << >> THEN "bundle" ELSE "gather"]
    ELSE /\ pkg' = [pkg EXCEPT !.pc = "finally", !.outcome = "failed", !.waiting = 0]
         /\ UNCHANGED tmpfiles

\* lines 37-58 for the next database: its latest completed backup is downloaded; when it
\* has none, create_and_run_backup_sync creates a Backup and runs run_backup
create_package_gather ==
    /\ pkg.pc = "gather"
    /\ LET d == Head(pkg.todo) IN
       IF Completed(backups, d) # {}
       THEN /\ \E fault \in BOOLEAN :
                  Fetch(d, Head(NewestFirst(backups, Completed(backups, d))), fault)
            /\ UNCHANGED <<backups, run>>
       ELSE /\ MayCreateJob
            /\ backups' = Put(backups, NextBackupId,
                              [NewBackup(d) EXCEPT !.trigger_mode = pkg.trigger_mode])
            /\ run' = [run EXCEPT ![NextBackupId].pc = "queued"]
            /\ pkg' = [pkg EXCEPT !.pc = "wait", !.waiting = NextBackupId]
            /\ UNCHANGED tmpfiles
    /\ response' = ""
    /\ UNCHANGED <<storevars, cfgvars, pkgconf, packages, restore_mode, databases, restores,
                   storage, rtask, clock>>

\* lines 49-51 and backup_manager.py 184-188: run_backup has returned or raised, the
\* Backup is read again and has to be completed
SyncBackupFailed(b) ==
    \/ run[b].pc = "raised"
    \/ b \notin DOMAIN backups
    \/ backups[b].status # "completed"

\* lines 49-58 once the backup driven for the database has ended
create_package_resume ==
    /\ pkg.pc = "wait"
    /\ run[pkg.waiting].pc \in {"done", "raised"}
    /\ IF SyncBackupFailed(pkg.waiting)
       THEN /\ pkg' = AfterFailedBackup(pkg)
            /\ UNCHANGED tmpfiles
       ELSE \E fault \in BOOLEAN : Fetch(Head(pkg.todo), pkg.waiting, fault)
    /\ response' = ""
    /\ UNCHANGED <<storevars, cfgvars, pkgconf, packages, restore_mode, databases, backups, restores,
                   storage, run, rtask, clock>>

\* lines 60-97: the archive in a temporary file, storage.save, the Package record. The
\* temporary file stays behind when the compression is unknown or the save raises.
create_package_bundle ==
    /\ pkg.pc = "bundle"
    /\ LET bundle == Bundle(pkg.compression, tmpfiles[TmpPkgDir])
           path == PackagePath(clock, pkg.trigger_mode, pkg.compression)
       IN IF pkg.compression \notin {"zip", "tar.gz"}
          THEN /\ tmpfiles' = Put(tmpfiles, TmpPkgFile, << >>)
               /\ pkg' = [pkg EXCEPT !.pc = "finally", !.outcome = "failed"]
               /\ UNCHANGED <<storage, packages>>
          ELSE \E ok \in BOOLEAN :
                 /\ storage' = StorageSave(storage, path, bundle, ok)
                 /\ IF ok
                    THEN /\ packages' = Put(packages, NextPackageId,
                                            NewPackage(path, bundle, pkg.trigger_mode))
                         /\ pkg' = [pkg EXCEPT !.pc = "finally", !.outcome = "created"]
                         /\ UNCHANGED tmpfiles
                    ELSE /\ tmpfiles' = Put(tmpfiles, TmpPkgFile, bundle)
                         /\ pkg' = [pkg EXCEPT !.pc = "finally", !.outcome = "failed"]
                         /\ UNCHANGED packages
    /\ response' = ""
    /\ UNCHANGED <<storevars, cfgvars, pkgconf, restore_mode, databases, backups, restores,
                   run, rtask, clock>>

\* a finally block that keeps the working directory
RemoveTreeKept(files) == files

\* line 106: shutil.rmtree(tmp_dir)
RemoveTree(files) == Drop(files, {TmpPkgDir})

\* lines 105-106, and the answer of POST /packages: 202, or 500 when create_package raised
create_package_finally ==
    /\ pkg.pc = "finally"
    /\ tmpfiles' = RemoveTree(tmpfiles)
    /\ pkg' = NoPackaging
    /\ response' = IF pkg.outcome = "failed" THEN "create_package 500" ELSE "create_package 202"
    /\ UNCHANGED <<storevars, cfgvars, pkgconf, packages, restore_mode, databases, backups, restores,
                   storage, run, rtask, clock>>

\* ---------------------------------------------------------------- package deletion
\* DELETE /packages/{id}
delete_package(p) ==
    /\ IF p \notin DOMAIN packages
       THEN /\ response' = "delete_package 204"
            /\ UNCHANGED <<packages, storage>>
       ELSE \E outcome \in DeleteOutcomes :
              /\ storage' = StorageDelete(storage, packages[p].storage_path, outcome)
              /\ IF outcome = "ok"
                 THEN /\ packages' = Drop(packages, {p})
                      /\ response' = "delete_package 204"
                 ELSE /\ UNCHANGED packages
                      /\ response' = IF outcome = "false" THEN "delete_package 502"
                                     ELSE "delete_package 500"
    /\ UNCHANGED <<storevars, cfgvars, pkgconf, pkg, restore_mode, databases, backups, restores,
                   tmpfiles, run, rtask, clock>>

\* a loop that goes on to the next package after a deletion that failed
RECURSIVE DeletePackageFilesAll(_, _, _)
DeletePackageFilesAll(seq, stor, outcome) ==
    IF seq = << >> THEN [storage |-> stor, failed |-> "ok"]
    ELSE LET rest == DeletePackageFilesAll(Tail(seq),
                        StorageDelete(stor, packages[Head(seq)].storage_path, outcome[Head(seq)]),
                        outcome)
         IN IF outcome[Head(seq)] = "ok" THEN rest
            ELSE [storage |-> rest.storage, failed |-> outcome[Head(seq)]]

\* lines 79-87: storage.delete of each package in turn; the first one that fails ends
\* the loop
RECURSIVE DeletePackageFiles(_, _, _)
DeletePackageFiles(seq, stor, outcome) ==
    IF seq = << >> THEN [storage |-> stor, failed |-> "ok"]
    ELSE IF outcome[Head(seq)] # "ok" THEN [storage |-> stor, failed |-> outcome[Head(seq)]]
    ELSE DeletePackageFiles(Tail(seq),
             StorageDelete(stor, packages[Head(seq)].storage_path, "ok"), outcome)

\* DELETE /packages: the records go with the commit at the end, or not at all
delete_all_packages ==
    /\ \E outcome \in {o \in [DOMAIN packages -> DeleteOutcomes] :
                            Cardinality({p \in DOMAIN packages : o[p] # "ok"}) <= MaxFaults} :
          LET r == DeletePackageFiles(ById(DOMAIN packages), storage, outcome) IN
          /\ storage' = r.storage
          /\ packages' = IF r.failed = "ok" THEN << >> ELSE packages
          /\ response' = IF r.failed = "ok" THEN "delete_all_packages 204"
                         ELSE IF r.failed = "false" THEN "delete_all_packages 502"
                         ELSE "delete_all_packages 500"
    /\ UNCHANGED <<storevars, cfgvars, pkgconf, pkg, restore_mode, databases, backups, restores,
                   tmpfiles, run, rtask, clock>>

\* ---------------------------------------------------------------- package specification
\* the first database keeps one backup, the second keeps all
InitPkg ==
    /\ packages = << >>
    /\ pkg = NoPackaging
    /\ pkgconf = NoPackageConf
    /\ restore_mode = FALSE
    /\ \E p1, p2 \in BOOLEAN :
          databases = (1 :> [DatabaseRow("postgres", "none",
                                         [retention_days |-> None, max_backups |-> Some(1)],
                                         None) EXCEPT !.package = p1]
                       @@ 2 :> [DatabaseRow("postgres", "none", NoPolicy, None) EXCEPT !.package = p2])
    /\ timers = << >>
    /\ config = << >>
    /\ backend = "local"
    /\ dcall = NoCalls
    /\ sweep = NoSweeps
    /\ backups = << >>
    /\ restores = << >>
    /\ storage = << >>
    /\ tmpfiles = << >>
    /\ run = [b \in BackupIds |-> Idle]
    /\ rtask = [r \in RestoreIds |-> NoTask]
    /\ clock = 0
    /\ response = ""

NextPkg ==
    \/ \E compression \in PackageCompressions : create_package_start(compression)
    \/ create_package_gather
    \/ create_package_resume
    \/ create_package_bundle
    \/ create_package_finally
    \/ \E b \in BackupIds : run_backup_dump(b)
    \/ \E b \in BackupIds : run_backup_save(b)
    \/ \E b \in BackupIds : run_backup_finally(b)
    \/ \E b \in BackupIds : run_backup_retention(b)
    \/ enforce_retention_job
    \/ \E b \in BackupIds : delete_backup(b)
    \/ \E d \in DbIds : delete_database(d)
    \/ Tick

SpecPkg == InitPkg /\ [][NextPkg]_vars

\* ---------------------------------------------------------------- package configuration
\* the updates PUT /packages/configuration/ takes: the schedule left out, cleared or set
PackageConfigUpdates ==
    {[given |-> FALSE, schedule |-> None]}
    \cup {[given |-> TRUE, schedule |-> sch] : sch \in {None, Some(Cron), Some(Cron2), Some(BadCron)}}

\* schedule_package_creation: add_job(replace_existing=True) under the one id
\* package_creation_job; CronTrigger.from_crontab raises for None and for a string that
\* is no crontab, and no job is added, replaced or removed then
SchedulePackageCreation(conf) ==
    IF Populated(conf.schedule) /\ ValidCron(The(conf.schedule))
    THEN [timer |-> conf.schedule, raised |-> FALSE]
    ELSE [timer |-> conf.timer, raised |-> TRUE]

\* PUT /packages/configuration/: the row and the settings take the update, and the
\* schedule is reloaded if the update names it
update_package_configuration(upd) ==
    /\ LET conf == IF upd.given THEN [pkgconf EXCEPT !.schedule = upd.schedule] ELSE pkgconf
           r == SchedulePackageCreation(conf)
       IN IF upd.given
          THEN /\ pkgconf' = [conf EXCEPT !.timer = r.timer]
               /\ response' = IF r.raised THEN "package_configuration 500"
                               ELSE "package_configuration 200"
          ELSE /\ pkgconf' = conf
               /\ response' = "package_configuration 200"
    /\ UNCHANGED <<storevars, cfgvars, packages, pkg, restore_mode, databases, backups, restores,
                   storage, tmpfiles, run, rtask, clock>>

\* POST /packages/reload/: the schedule of the settings is scheduled again, if there is one
reload_package_schedule ==
    /\ LET r == SchedulePackageCreation(pkgconf) IN
       IF Populated(pkgconf.schedule)
       THEN /\ pkgconf' = [pkgconf EXCEPT !.timer = r.timer]
            /\ response' = IF r.raised THEN "package_reload 500" ELSE "package_reload 204"
       ELSE /\ UNCHANGED pkgconf
            /\ response' = "package_reload 204"
    /\ UNCHANGED <<storevars, cfgvars, packages, pkg, restore_mode, databases, backups, restores,
                   storage, tmpfiles, run, rtask, clock>>

\* ---------------------------------------------------------------- stored packages
\* The life of packages that exist: an instance with one database of the config file, its
\* two completed backups, and one to MaxPkgs packages made of the older one.
InitPkgOps ==
    /\ pkg = NoPackaging
    /\ pkgconf = NoPackageConf
    /\ restore_mode = FALSE
    /\ databases = (1 :> DatabaseRow("postgres", "none",
                                     [retention_days |-> None, max_backups |-> Some(1)],
                                     Some("a")))
    /\ timers = << >>
    /\ config = <<Entry("a", None)>>
    /\ backend = "local"
    /\ dcall = NoCalls
    /\ sweep = NoSweeps
    /\ backups = [b \in BackupIds |-> CompletedRow(1, b - 1)]
    /\ run = [b \in BackupIds |-> [Idle EXCEPT !.db = 1, !.pc = "done"]]
    /\ clock = MaxJobs + MaxPkgs
    /\ \E n \in PackageIds :
          LET bundle == Bundle("zip", <<[db |-> 1, backup |-> 1, content |-> <<"x">>]>>) IN
          /\ packages = [p \in 1..n |->
                            [NewPackage(PackagePath(MaxJobs + p, "manual", "zip"), bundle, "manual")
                                EXCEPT !.created_at = MaxJobs + p]]
          /\ storage = [q \in {StoragePath(1, b - 1, DefaultTriggerMode) : b \in BackupIds}
                            |-> <<"x">>]
                       @@ [q \in {PackagePath(MaxJobs + p, "manual", "zip") : p \in 1..n}
                              |-> bundle]
    /\ restores = << >>
    /\ tmpfiles = << >>
    /\ rtask = [r \in RestoreIds |-> NoTask]
    /\ response = ""

NextPkgOps ==
    \/ \E p \in PackageIds : delete_package(p)
    \/ delete_all_packages
    \/ \E b \in BackupIds : delete_backup(b)
    \/ \E d \in DbIds : delete_database(d)
    \/ enforce_retention_job
    \/ \E doc \in ConfigDocs : reload_databases_config(doc)

SpecPkgOps == InitPkgOps /\ [][NextPkgOps]_vars

\* the package configuration next to the packages that exist
NextPkgConf ==
    \/ \E upd \in PackageConfigUpdates : update_package_configuration(upd)
    \/ reload_package_schedule
    \/ \E p \in PackageIds : delete_package(p)
    \/ delete_all_packages

SpecPkgConf == InitPkgOps /\ [][NextPkgConf]_vars

\* ---------------------------------------------------------------- properties
Terminal == {"completed", "failed"}

\* one record's status across a step: unchanged, or running -> completed / failed
Forward(old, new) == new = old \/ (old = "running" /\ new \in Terminal)

\* C1: a Backup is created running, a Restore is created running (and may be failed by
\* the preparation of the request that creates it), and the status of an existing Job
\* only ever goes from running to completed or from running to failed.
C1_StatusOnlyForward ==
    [][/\ \A b \in DOMAIN backups' :
            IF b \in DOMAIN backups
            THEN Forward(backups[b].status, backups'[b].status)
            ELSE backups'[b].status = "running"
       /\ \A r \in DOMAIN restores' :
            IF r \in DOMAIN restores
            THEN Forward(restores[r].status, restores'[r].status)
            ELSE restores'[r].status \in {"running", "failed"}]_vars

\* both kinds of Job have reached both terminal states
C1_Witness ==
    /\ \E b \in DOMAIN backups : backups[b].status = "completed"
    /\ \E r \in DOMAIN restores : restores[r].status = "failed" /\ rtask[r].pc = "done"

\* C2: a completed backup has storage_path, size_bytes, checksum and finished_at
\* populated; a completed restore has finished_at populated.
C2_CompletedIsPopulated ==
    /\ \A b \in DOMAIN backups :
          backups[b].status = "completed" =>
             /\ Populated(backups[b].storage_path)
             /\ Populated(backups[b].size_bytes)
             /\ Populated(backups[b].checksum)
             /\ Populated(backups[b].finished_at)
    /\ \A r \in DOMAIN restores :
          restores[r].status = "completed" => Populated(restores[r].finished_at)

C2_Witness ==
    \E b \in DOMAIN backups :
       /\ backups[b].status = "completed"
       /\ backups[b].storage_path = Some(StoragePath(backups[b].database_id, 0, "scheduled"))
       /\ backups[b].size_bytes = Some(1)

\* C3: a backup Job that is not completed has none of finished_at, size_bytes, checksum,
\* storage_path populated.
C3_NotCompletedIsEmpty ==
    \A b \in DOMAIN backups :
       backups[b].status # "completed" =>
          /\ ~Populated(backups[b].finished_at)
          /\ ~Populated(backups[b].size_bytes)
          /\ ~Populated(backups[b].checksum)
          /\ ~Populated(backups[b].storage_path)

\* C4: every failed Job, backup or restore, has a non-empty log.
C4_FailedHasLog ==
    /\ \A b \in DOMAIN backups :
          backups[b].status = "failed" =>
             Populated(backups[b].log) /\ The(backups[b].log) # << >>
    /\ \A r \in DOMAIN restores :
          restores[r].status = "failed" =>
             Populated(restores[r].log) /\ The(restores[r].log) # << >>

\* C5: the commit that makes a backup completed is the commit of a run whose
\* storage.save has returned; a run still before the end of the handoff, or whose
\* handoff raised, has a Job that is running or failed.
C5_CompletedOnlyAfterSave ==
    [][\A b \in BackupIds :
         /\ (/\ b \in DOMAIN backups /\ b \in DOMAIN backups'
             /\ backups[b].status # "completed"
             /\ backups'[b].status = "completed")
            => (/\ run[b].pc = "finally"
                /\ run[b].handoff = "returned"
                /\ backups'[b].storage_path = Some(run[b].path))
         /\ (/\ b \in DOMAIN backups'
             /\ \/ run'[b].pc \in {"queued", "save"}
                \/ run'[b].pc = "finally" /\ run'[b].handoff # "returned")
            => backups'[b].status # "completed"]_vars

\* one run has committed completed while another's handoff has raised and is not yet committed
C5_Witness ==
    \E b, c \in BackupIds :
       /\ b \in DOMAIN backups /\ backups[b].status = "completed" /\ run[b].pc = "retention"
       /\ c \in DOMAIN backups /\ run[c].pc = "finally" /\ run[c].handoff = "raised"
       /\ backups[c].status = "running"

\* C6: the commit of a run whose dump process exited nonzero or wrote to stderr makes
\* the Job failed with log equal to that stderr; a commit makes the Job completed only
\* when the exit code is zero and stderr is empty.
C6_DumpErrorFailsVerbatim ==
    [][\A b \in BackupIds :
         (/\ b \in DOMAIN backups /\ b \in DOMAIN backups'
          /\ run[b].pc = "finally" /\ run'[b].pc # "finally"
          /\ Populated(run[b].proc))
         => LET p == The(run[b].proc) IN
            /\ (p.rc # 0 \/ p.stderr # << >>)
                  => /\ backups'[b].status = "failed"
                     /\ backups'[b].log = Some(p.stderr)
            /\ backups'[b].status = "completed"
                  => (p.rc = 0 /\ p.stderr = << >>)]_vars

\* C7: a run whose Backup or Database is missing returns without creating or changing
\* any Backup, temporary file or artifact, and without chaining retention.
C7_MissingIsNoOp ==
    [][\A b \in BackupIds :
         (run[b].pc = "queued" /\ run'[b].pc # "queued" /\ run_backup_missing(b))
         => /\ run'[b] = [Idle EXCEPT !.pc = "done"]
            /\ \A c \in BackupIds \ {b} : run'[c] = run[c]
            /\ UNCHANGED <<databases, backups, restores, storage, tmpfiles, rtask>>]_vars

\* a run has returned at its fail-fast check
C7_Witness ==
    \E b \in BackupIds :
       /\ run[b].pc = "done" /\ run[b].db = 0
       /\ (b \notin DOMAIN backups \/ backups[b].status = "running")
       /\ TmpBackup(b) \notin DOMAIN tmpfiles

Ended == {"done", "retention", "raised"}

\* C8: once a run has ended, on any path, its temporary file does not exist.
C8_TmpRemoved ==
    \A b \in BackupIds : run[b].pc \in Ended => TmpBackup(b) \notin DOMAIN tmpfiles

\* a run that created its temporary file has ended failed
C8_Witness ==
    \E b \in DOMAIN backups :
       /\ run[b].pc = "done" /\ run[b].db # 0
       /\ backups[b].status = "failed"
       /\ TmpBackup(b) \notin DOMAIN tmpfiles

\* C9: while restore mode is disabled every restore trigger answers 403 and changes
\* nothing, so no Restore, restore file or restore task ever exists.
C9_RestoreGate ==
    [][~restore_mode =>
         /\ response' \notin {"202", "404", "500"}
         /\ response' = "403" =>
               UNCHANGED <<databases, backups, restores, storage, tmpfiles, run, rtask>>
         /\ restores' = << >>
         /\ \A r \in RestoreIds : rtask'[r] = NoTask /\ TmpRestore(r) \notin DOMAIN tmpfiles']_vars

\* a trigger was refused while a completed backup was there to restore
C9_Witness ==
    /\ ~restore_mode
    /\ response = "403"
    /\ \E b \in DOMAIN backups :
          backups[b].status = "completed" /\ backups[b].database_id \in DOMAIN databases

\* the completed backups of database d, and how many days ago one finished
CompletedOf(d) == {c \in DOMAIN backups : backups[c].database_id = d /\ backups[c].status = "completed"}
FinishedAt(c) == The(backups[c].finished_at)

\* C10: for a database with both retention_days and max_backups set, a call of
\* enforce_retention that returns deletes exactly the union of (a) the completed backups
\* finished before now - retention_days and (b) the completed backups beyond the
\* max_backups newest by finish time, and leaves every other backup as it was; with
\* retention_days 7, max_backups 3 and ages 1, 2, 8, 9, 10 days it deletes exactly 3.
C10_RetentionUnion ==
    [][\A b \in RetJobIds :
         (/\ run[b].pc = "retention" /\ run'[b].pc = "done"
          /\ run[b].db \in DOMAIN databases
          /\ Populated(databases[run[b].db].retention_days)
          /\ Populated(databases[run[b].db].max_backups))
         => LET d == run[b].db
                days == The(databases[d].retention_days)
                max == The(databases[d].max_backups)
                C == CompletedOf(d)
                A == {c \in C : FinishedAt(c) < clock - days}
                D == DOMAIN backups \ DOMAIN backups'
            IN /\ \E B \in SUBSET C :
                    /\ Cardinality(B) = IF Cardinality(C) > max THEN Cardinality(C) - max ELSE 0
                    /\ \A x \in B, k \in C \ B : FinishedAt(x) <= FinishedAt(k)
                    /\ D = A \cup B
               /\ \A j \in DOMAIN backups' : j \in DOMAIN backups /\ backups'[j] = backups[j]
               /\ (/\ days = 7 /\ max = 3 /\ Cardinality(C) = 5
                   /\ {clock - FinishedAt(c) : c \in C} = {1, 2, 8, 9, 10})
                  => Cardinality(D) = 3]_vars

\* the example's outcome: of five backups the three older than 7 days are gone and the
\* two of ages 2 and 1 are left
C10_Witness ==
    /\ databases[1].retention_days = Some(7) /\ databases[1].max_backups = Some(3)
    /\ DOMAIN backups = {4, 5}
    /\ clock - FinishedAt(4) = 2 /\ clock - FinishedAt(5) = 1
    /\ run[5].pc = "done"

\* C11: a retention step removes a Backup record only when its artifact is gone from
\* storage, so a backup whose storage.delete failed keeps its record.
C11_RecordOnlyAfterArtifact ==
    [][\A b \in DOMAIN backups :
         (b \notin DOMAIN backups' /\ Populated(backups[b].storage_path))
         => The(backups[b].storage_path) \notin DOMAIN storage']_vars

\* the retention policy of database d holds of the backups left after a step
PolicyAppliedAfter(d) ==
    LET row == databases[d]
        left == {c \in DOMAIN backups' :
                    backups'[c].database_id = d /\ backups'[c].status = "completed"}
    IN /\ Populated(row.retention_days) =>
             \A c \in left : The(backups'[c].finished_at) >= clock - The(row.retention_days)
       /\ Populated(row.max_backups) => Cardinality(left) <= The(row.max_backups)

\* C12: a sweep leaves every database's policy applied, except the one database at
\* which a storage deletion raised; a sweep that returns leaves all of them applied.
C12_SweepContinues ==
    [][/\ response' = "" => \A d \in DOMAIN databases : PolicyAppliedAfter(d)
       /\ response' = "job_error" =>
             Cardinality({d \in DOMAIN databases : ~PolicyAppliedAfter(d)}) <= 1]_vars

\* C13: a deletion that is reported failed leaves every Backup record and every artifact
\* as it was; a deletion that is reported done removes one record together with its artifact.
C13_DeleteAllOrNothing ==
    [][/\ response' \in {"502", "raised"} => UNCHANGED <<backups, storage>>
       /\ response' = "204" =>
             \E b \in DOMAIN backups :
                /\ backups' = Drop(backups, {b})
                /\ storage' = IF Populated(backups[b].storage_path)
                              THEN Drop(storage, {The(backups[b].storage_path)})
                              ELSE storage]_vars

\* a deletion was refused while the record and its artifact are both there
C13_Witness ==
    /\ response = "502"
    /\ \E b \in DOMAIN backups :
          /\ backups[b].database_id \in DOMAIN databases
          /\ Populated(backups[b].storage_path)
          /\ The(backups[b].storage_path) \in DOMAIN storage

\* C14: a call of delete returns failure only for a genuine I/O or API error; a caller
\* that finds the path already removed, also by a concurrent caller, gets success.
C14_DeleteIdempotent ==
    \A w \in Workers :
       (dcall[w].pc = "returned" /\ ~dcall[w].result) => dcall[w].fault

\* C15: after every step each path of storage holds what it held before or the whole
\* temporary file of a save that returned, always a complete artifact; a save that
\* fails changes nothing in storage.
C15_SaveAtomic ==
    [][/\ \A q \in DOMAIN storage' :
            /\ storage'[q] \in Contents
            /\ \/ q \in DOMAIN storage /\ storage'[q] = storage[q]
               \/ \E b \in BackupIds :
                     /\ run[b].pc = "save" /\ run[b].path = q
                     /\ run'[b].handoff = "returned"
                     /\ storage'[q] = tmpfiles[TmpBackup(b)]
       /\ \A b \in BackupIds :
            (run[b].pc = "save" /\ run'[b].handoff = "raised") => storage' = storage]_vars

\* a save has failed and its destination holds nothing
C15_Witness ==
    \E b \in BackupIds :
       /\ run[b].pc = "finally" /\ run[b].handoff = "raised"
       /\ run[b].path \notin DOMAIN storage
       /\ TmpBackup(b) \in DOMAIN tmpfiles

\* C16: reconcile is idempotent: run twice in a row over the same Database rows, the
\* second run leaves the timers (their keys and their schedules) as the first run left
\* them, and ends the way the first run ended.
C16_ReconcileIdempotent ==
    LET first == ScheduleDatabaseBackups(databases, timers)
        second == ScheduleDatabaseBackups(databases, first.timers)
    IN second = first

\* rows and timers that differ, so that the first run adds, replaces or removes a timer
C16_Witness ==
    LET first == ScheduleDatabaseBackups(databases, timers)
    IN /\ first.timers # timers
       /\ DOMAIN first.timers # {}
       /\ DOMAIN timers # {}

\* C17: a database with no schedule has no scheduler timer once the reconcile of the
\* request that touched it has run; a schedule that was set and then cleared leaves no
\* timer for that database.
C17_NoScheduleNoTimer ==
    \A d \in DOMAIN databases : ~Populated(databases[d].schedule) => d \notin DOMAIN timers

\* C18: a database of the config file that was soft-deleted and not reset since is in no
\* listing and has no scheduler timer, whatever other requests and reconciles ran.
C18_SoftDeletedHidden ==
    \A d \in DOMAIN databases :
       (databases[d].is_deleted /\ Populated(databases[d].config_id))
       => (d \notin ListDatabases(databases) /\ d \notin DOMAIN timers)

Declared(row) == Populated(row.config_id)

C20_DuplicateAbortsReload ==
    [][(response' \in {"reload 204", "reload 500"} /\ HasDuplicateIds(config'))
       => (response' = "reload 500" /\ UNCHANGED <<databases, timers>>)]_vars

\* a reload of a document with a doubled id has failed while a row of that id, not
\* overridden, holds another schedule than an entry of the document
C20_Witness ==
    /\ response = "reload 500"
    /\ HasDuplicateIds(config)
    /\ \E d \in DOMAIN databases :
          /\ Declared(databases[d])
          /\ ~databases[d].override_static_config
          /\ \E i \in EntriesOf(config, The(databases[d].config_id)) :
                config[i].schedule # databases[d].schedule

\* C22: in a config sync an entry without credentials is skipped: no row is created for
\* it and no row of its id changes, while every entry of the same document that has
\* credentials still gets its row created or, unless the row is overridden or deleted,
\* updated.
C22_MissingCredentialsSkipped ==
    [][(response' \in {"reload 204", "reload 500"} /\ ~HasDuplicateIds(config'))
       => \A i \in DOMAIN config' :
            LET entry == config'[i] IN
            IF ~entry.credentials
            THEN /\ RowsOf(databases', entry.id) = RowsOf(databases, entry.id)
                 /\ \A d \in RowsOf(databases, entry.id) : databases'[d] = databases[d]
            ELSE /\ RowsOf(databases', entry.id) # {}
                 /\ \A d \in RowsOf(databases', entry.id) :
                       \/ databases'[d].schedule = WithDefaults(entry).schedule
                       \/ /\ d \in DOMAIN databases
                          /\ databases[d].override_static_config
                          /\ databases'[d] = databases[d]]_vars

\* a sync has passed an entry without credentials, made no row for it, and made the row
\* of an entry that comes after it in the document
C22_Witness ==
    /\ response = "reload 204"
    /\ \E i, j \in DOMAIN config :
          /\ i < j
          /\ ~config[i].credentials
          /\ config[j].credentials
          /\ RowsOf(databases, config[i].id) = {}
          /\ \E d \in RowsOf(databases, config[j].id) :
                databases[d].schedule = config[j].schedule

\* the databases that came from the config file
DeclaredIds(dbs) == {d \in DOMAIN dbs : Declared(dbs[d])}

\* what a row of the config file shows of its entry
Shown(dbs, d) ==
    <<dbs[d].config_id, dbs[d].schedule, dbs[d].is_deleted, dbs[d].override_static_config>>

\* C21: a bulk replace of the config leaves every database without config id as it was,
\* and, unless it is rejected and changes nothing, it deletes every database that had a
\* config id, overridden or soft-deleted ones included, and the databases with a config
\* id afterwards are new rows made from the entries of the uploaded document alone.
C21_BulkReplace ==
    [][response' \in {"upload 204", "upload 400"} =>
         /\ \A d \in DOMAIN databases \ DeclaredIds(databases) :
               d \in DOMAIN databases' /\ databases'[d] = databases[d]
         /\ \/ response' = "upload 400" /\ databases' = databases
            \/ /\ DeclaredIds(databases) \cap DOMAIN databases' = {}
               /\ \E doc \in ConfigDocs :
                    LET valid == {i \in DOMAIN doc : doc[i].credentials} IN
                    /\ ~HasDuplicateIds(doc)
                    /\ Cardinality(DeclaredIds(databases')) = Cardinality(valid)
                    /\ {Shown(databases', d) : d \in DeclaredIds(databases')}
                         = {<<Some(doc[i].id), WithDefaults(doc[i]).schedule, FALSE, FALSE>> : i \in valid}]_vars

\* a bulk replace has run next to a database of the API: the timer of a deleted row of
\* the old config is still there, and a new row of the uploaded document exists
C21_Witness ==
    /\ response = "upload 204"
    /\ DOMAIN timers \ DOMAIN databases # {}
    /\ DeclaredIds(databases) # {}
    /\ DOMAIN databases \ DeclaredIds(databases) # {}

\* C23: create_package with no database marked for packaging is a no-op: it ends without
\* error and creates no Package, writes nothing to storage, creates and runs no backup,
\* and its working directory is gone when it ends.
C23_NoDatabasesNoPackage ==
    [][/\ (pkg.pc = "idle" /\ pkg'.pc # "idle"
             /\ \A d \in DOMAIN databases : ~databases[d].package)
          => (/\ pkg'.pc = "finally"
              /\ pkg'.outcome = "noop"
              /\ UNCHANGED <<packages, storage, backups, run>>)
       /\ (pkg.outcome = "noop" /\ pkg' # pkg)
          => (/\ pkg' = NoPackaging
              /\ response' = "create_package 202"
              /\ TmpPkgDir \notin DOMAIN tmpfiles'
              /\ UNCHANGED <<packages, storage, backups, run>>)]_vars

\* create_package has ended with no database marked and nothing made
C23_Witness ==
    /\ response = "create_package 202"
    /\ pkg = NoPackaging
    /\ DOMAIN databases # {}
    /\ \A d \in DOMAIN databases : ~databases[d].package
    /\ packages = << >>
    /\ backups = << >>

\* the files of the working directory
Gathered == IF TmpPkgDir \in DOMAIN tmpfiles THEN tmpfiles[TmpPkgDir] ELSE << >>

\* C24: create_package is all-or-nothing: a Package is recorded only with a bundle in
\* storage that holds one artifact of a completed backup for every database that was
\* marked, in order; an attempt that fails (a backup driven on the fly that did not
\* complete, a download, the compression, the save) records no Package and stores nothing.
C24_PackageAllOrNothing ==
    [][/\ packages' # packages
          => (/\ Len(pkg.dbs) > 0
              /\ Len(Gathered) = Len(pkg.dbs)
              /\ \A i \in DOMAIN pkg.dbs : Gathered[i].db = pkg.dbs[i]
              /\ \E p \in DOMAIN packages' \ DOMAIN packages :
                    /\ packages'[p].storage_path \in DOMAIN storage'
                    /\ storage'[packages'[p].storage_path] = Bundle(pkg.compression, Gathered)
              /\ pkg'.outcome = "created")
       /\ (pkg' # pkg /\ pkg.pc \in {"gather", "wait"} /\ pkg'.pc \in {"gather", "bundle"})
          => (/\ Len(Gathered') = Len(Gathered) + 1
              /\ LET file == Gathered'[Len(Gathered')] IN
                 /\ file.db = Head(pkg.todo)
                 /\ file.backup \in DOMAIN backups
                 /\ backups[file.backup].database_id = file.db
                 /\ backups[file.backup].status = "completed")
       /\ (pkg'.outcome = "failed" /\ pkg.outcome # "failed")
          => UNCHANGED <<packages, storage>>
       /\ (pkg.pc = "wait" /\ pkg' # pkg
             /\ (pkg.waiting \notin DOMAIN backups
                 \/ backups[pkg.waiting].status # "completed"))
          => pkg'.outcome = "failed"]_vars

\* an attempt over two databases is ending in failure after the first one had
\* contributed its artifact, and no Package exists
C24_Witness ==
    /\ pkg.pc = "finally"
    /\ pkg.outcome = "failed"
    /\ Len(pkg.dbs) = 2
    /\ Len(Gathered) = 1
    /\ packages = << >>
    /\ \E b \in DOMAIN backups : backups[b].database_id = pkg.dbs[2] /\ backups[b].status = "failed"

\* C25: the working directory of create_package does not exist once create_package has
\* ended, whichever way it ended.
C25_WorkdirRemoved ==
    pkg.pc = "idle" => TmpPkgDir \notin DOMAIN tmpfiles

\* create_package has ended with an error raised after the archive's temporary file was
\* made (unknown compression, or a save that failed)
C25_Witness ==
    /\ pkg.pc = "idle"
    /\ response = "create_package 500"
    /\ TmpPkgFile \in DOMAIN tmpfiles

\* C27: when a storage deletion fails during delete-all-packages the request is answered
\* with a failure and stops there: the artifact of the failing package and of every package
\* after it stays in storage and no record is deleted; only a request in which every
\* deletion succeeded is answered with success.
C27_DeleteAllHalts ==
    [][/\ response' \in {"delete_all_packages 502", "delete_all_packages 500"}
          => (/\ packages' = packages
              /\ \E failing \in DOMAIN packages :
                    storage' = Drop(storage, {packages[q].storage_path :
                                                 q \in {r \in DOMAIN packages : r < failing}}))
       /\ response' = "delete_all_packages 204"
          => (/\ packages' = << >>
              /\ \A q \in DOMAIN packages : packages[q].storage_path \notin DOMAIN storage')]_vars

\* delete-all-packages has failed at the second of three packages
C27_Witness ==
    /\ response = "delete_all_packages 502"
    /\ DOMAIN packages = 1..3
    /\ packages[1].storage_path \notin DOMAIN storage
    /\ packages[2].storage_path \in DOMAIN storage
    /\ packages[3].storage_path \in DOMAIN storage

\* C28: a deletion that names a Backup or a Package that does not exist is answered with
\* not-found (404) and changes nothing; it is answered neither with success nor with the
\* storage failure. No Package exists / no Backup exists, so every id is unknown.
C28_UnknownIdIsNotFound ==
    [][/\ (packages = << >> /\ response' \in {"delete_package 204", "delete_package 502",
                                              "delete_package 500", "delete_package 404"})
          => (response' = "delete_package 404" /\ UNCHANGED <<packages, storage>>)
       /\ (backups = << >> /\ response' \in {"204", "502", "raised", "404"})
          => (response' = "404" /\ UNCHANGED <<backups, storage>>)]_vars

\* C30: a step that is not a package deletion (a database deletion, a Backup deletion, a
\* retention sweep of Backups, a reload of config.yaml) leaves every Package record as it
\* was and leaves its bundle in storage with the same bytes.
C30_PackagesIndependent ==
    [][response' \notin {"delete_package 204", "delete_package 502", "delete_package 500",
                         "delete_all_packages 204", "delete_all_packages 502",
                         "delete_all_packages 500"}
       => /\ packages' = packages
          /\ \A q \in DOMAIN packages :
                packages[q].storage_path \in DOMAIN storage
                => /\ packages[q].storage_path \in DOMAIN storage'
                   /\ storage'[packages[q].storage_path] = storage[packages[q].storage_path]]_vars

\* every Backup is gone and the database is soft-deleted, the Packages and bundles remain
C30_Witness ==
    /\ backups = << >>
    /\ 1 \in DOMAIN databases /\ databases[1].is_deleted
    /\ response = "reload 204"
    /\ DOMAIN packages = PackageIds
    /\ \A q \in DOMAIN packages : packages[q].storage_path \in DOMAIN storage

\* C29: the retention sweep chained to a Backup is entered only by the step that commits
\* that Backup as completed (from the finally block, with finished_at stamped), a run that
\* ends failed never enters it, and while the pipeline is between its start and its commit
\* the record is still running and the sweep has not been entered.
C29_RetentionAfterCommit ==
    [][\A b \in BackupIds :
          /\ (run'[b].pc = "retention" /\ run[b].pc # "retention")
             => /\ run[b].pc = "finally"
                /\ b \in DOMAIN backups /\ backups[b].status = "running"
                /\ b \in DOMAIN backups' /\ backups'[b].status = "completed"
                /\ Populated(backups'[b].finished_at)
          /\ (run[b].pc = "finally" /\ run[b].status # "completed")
             => run'[b].pc # "retention"
          /\ (run[b].pc = "retention" /\ b \in DOMAIN backups)
             => backups[b].status = "completed"]_vars

\* a completed Backup has been committed and its chained sweep is about to run
C29_Witness ==
    \E b \in DOMAIN backups :
       /\ run[b].pc = "retention"
       /\ backups[b].status = "completed"
       /\ \E c \in DOMAIN backups : c # b /\ backups[c].status = "failed"

\* C26: a Backup whose run_backup ended by raising an exception has been committed with
\* status failed: it is not left running.
C26_RaisedJobIsFailed ==
    \A b \in DOMAIN backups : run[b].pc = "raised" => backups[b].status = "failed"

\* C33: two distinct completed Backups never have the same storage_path.
C33_DistinctStoragePaths ==
    \A b, c \in DOMAIN backups :
       (b # c /\ backups[b].status = "completed" /\ backups[c].status = "completed")
       => backups[b].storage_path # backups[c].storage_path

\* C39: once create_package has ended, on any exit path, neither the temporary file of
\* the archive nor the working directory is left on the local disk.
C39_NoTmpLeftBehind ==
    pkg.pc = "idle" => (TmpPkgFile \notin DOMAIN tmpfiles /\ TmpPkgDir \notin DOMAIN tmpfiles)

\* C35: the storage_path of every Package record names a bundle that exists in storage.
C35_PackageBundleExists ==
    \A q \in DOMAIN packages : packages[q].storage_path \in DOMAIN storage

\* C32: every timer backup_<d> of the scheduler is keyed by a Database row that exists
\* and has a schedule.
C32_TimersHaveScheduledRows ==
    \A d \in DOMAIN timers :
       d \in DOMAIN databases /\ Populated(databases[d].schedule)

\* C36: a bulk replace whose document holds the same id twice is answered with the
\* validation error (400) and changes nothing: every database, declared ones included, is
\* afterwards what it was before, no row of the uploaded document exists, no timer changes.
C36_DuplicateRollsBackReplace ==
    [][\A doc \in ConfigDocs :
          (HasDuplicateIds(doc) /\ upload_config(doc))
          => /\ response' = "upload 400"
             /\ databases' = databases
             /\ timers' = timers]_vars

\* a bulk replace was rejected (no schedule is invalid, so not by the reconcile) and a
\* declared database, here one with its timer, is still there
C36_Witness ==
    /\ response = "upload 400"
    /\ \A d \in DOMAIN databases :
          Populated(databases[d].schedule) => ValidCron(The(databases[d].schedule))
    /\ \E d \in DeclaredIds(databases) : d \in DOMAIN timers

\* C37: a reset of a database declared in the config file whose entry is still in the file
\* clears the override flag and the soft-delete flag and gives the row the declared
\* schedule (the entry's, or the global default when the entry has none), so that it is
\* listed and, when the reset is answered 200, has a timer exactly if it has a schedule;
\* when the entry is gone the row and its timer are removed; a database of the API is
\* answered 400 and nothing changes.
C37_ResetToDeclared ==
    [][\A d \in CfgDbIds :
          (d \in DOMAIN databases /\ reset_database_to_static(d))
          => IF ~Declared(databases[d])
             THEN response' = "reset 400" /\ UNCHANGED <<databases, timers>>
             ELSE IF EntriesOf(config, The(databases[d].config_id)) = {}
             THEN d \notin DOMAIN databases' /\ d \notin DOMAIN timers'
             ELSE LET entry == WithDefaults(FirstEntryOf(config, The(databases[d].config_id))) IN
                  /\ d \in ListDatabases(databases')
                  /\ ~databases'[d].override_static_config
                  /\ databases'[d].schedule = entry.schedule
                  /\ response' = "reset 200"
                        => (d \in DOMAIN timers' <=> Populated(entry.schedule))]_vars

\* C34: when the retention sweep chained to a completed Backup of a database that keeps
\* at least one backup (max_backups unset or >= 1, retention_days unset or >= 1) runs
\* while that Backup and its artifact exist, a newest completed Backup of the database
\* and its artifact still exist afterwards.
C34_ChainedRetentionKeepsNewest ==
    [][\A b \in BackupIds :
          (/\ run[b].pc = "retention" /\ run'[b].pc # "retention"
           /\ b \in DOMAIN backups /\ run[b].db \in DOMAIN databases
           /\ The(backups[b].storage_path) \in DOMAIN storage
           /\ LET row == databases[run[b].db] IN
              /\ row.max_backups = None \/ The(row.max_backups) >= 1
              /\ row.retention_days = None \/ The(row.retention_days) >= 1)
          => \E k \in Completed(backups', run[b].db) :
                /\ \A c \in Completed(backups, run[b].db) : Fin(backups, c) <= Fin(backups', k)
                /\ The(backups'[k].storage_path) \in DOMAIN storage']_vars

\* C31: no Backup has its deletion issued by two retention sweeps: the backups whose
\* deletion one worker's enforce_retention has issued are disjoint from those of every
\* other worker's.
C31_DeletedOnce ==
    \A v, w \in Workers : v # w => sweep[v].issued \cap sweep[w].issued = {}

\* C38: after an update of the package configuration that names the schedule, the job
\* package_creation_job does not exist when the schedule was cleared, and exists with the
\* new schedule when a crontab was given.
C38_PackagingTimerFollowsSchedule ==
    [][response' \in {"package_configuration 200", "package_configuration 500"}
       => /\ pkgconf'.schedule = None => pkgconf'.timer = None
          /\ (Populated(pkgconf'.schedule) /\ ValidCron(The(pkgconf'.schedule)))
                => pkgconf'.timer = pkgconf'.schedule]_vars

====
